---------------------------- MODULE Spec2Model ----------------------------
(***************************************************************************)
(* Model of the Arduino code complexity analyzer (CodeComplexityAnalyzer). *)
(* Texts are sequences of one-character strings; the regular expressions   *)
(* of the analyzer are operators over such sequences.                      *)
(***************************************************************************)
EXTENDS Integers, Sequences, FiniteSets, TLC

VARIABLES
    \* count_lines
    lpc,                    \* position in count_lines: "open", "for", "body", "returned"
    readable,               \* whether open()/readlines() succeeded
    nread,                  \* number of physical lines the loop has processed
    line,                   \* the physical line the loop body is working on
    kind,                   \* how the line processed last was counted
    was_in_comment,         \* in_multiline_comment when that line was read
    loc, comments, blank,   \* the three counters
    in_multiline_comment,   \* the block-comment flag
    \* remove_comments_and_strings
    spc,                    \* position: "subs", "while", "returned"
    text,                   \* the argument
    content,                \* the local variable content
    after_subs,             \* content when the while loop is entered
    cut_at,                 \* index in after_subs of the "/*" the text was cut at (0: none)
    \* calculate_cyclomatic_complexity
    cpc,                    \* position: "strip", "for", "returned"
    ctext,                  \* the argument
    cclean,                 \* content after remove_comments_and_strings
    pat,                    \* index in control_structures of the next pattern
    complexity,             \* the local variable complexity
    \* find_functions
    fpc,                    \* position: "strip", "for", "returned"
    ftext,                  \* the argument
    flines,                 \* content_clean.split('\n')
    fi,                     \* number of lines the loop has processed
    current_function,       \* name of the open function, <<>> for None
    brace_count,
    function_content,       \* the lines buffered for the open function
    functions,              \* the list returned
    \* analyze_project and analyze_file
    ppc,                    \* position: "discover", "for", "count", "returned"
    disk,                   \* per file: the text it holds and whether open() succeeds
    files_to_analyze,       \* the files discovered, in the order they are analysed
    file_content,           \* analyze_file's local variable content
    changed,                \* the file was changed between analyze_file's two reads
    files_metrics,          \* the FileMetrics collected so far
    read_failed,            \* history: indices of the files one of whose reads failed
    read_empty,             \* history: indices of the files read successfully as ''
    project,                \* the ProjectMetrics returned
    run,                    \* which run of the engine this is: 1 or 2
    first_project,          \* the ProjectMetrics the first run returned
    \* calculate_nesting_depth
    dpc,                    \* position: "strip", "for", "returned"
    dtext,                  \* the argument
    dclean,                 \* content after remove_comments_and_strings
    di,                     \* number of characters the loop has processed
    current_depth,
    max_depth,
    \* the warnings of main
    wpc,                    \* position: "analyzed", "done"
    wmetrics,               \* metrics.files_metrics: filename and cyclomatic_complexity
    threshold,              \* args.threshold
    high_complexity_files,  \* the list of the files flagged
    \* ArduinoProjectAnalyzer.scan_project
    apc,                    \* position: "ready", "walk"
    tree,                   \* the paths project_path.rglob('*') yields, in its order
    walk,                   \* number of paths the loop has processed
    file_stats,             \* self.file_stats
    project_stats,          \* self.project_stats
    scans                   \* number of scan_project calls that have returned

vLines == <<lpc, readable, nread, line, kind, was_in_comment,
            loc, comments, blank, in_multiline_comment>>

vStrip == <<spc, text, content, after_subs, cut_at>>

vCC == <<cpc, ctext, cclean, pat, complexity>>

vFunc == <<fpc, ftext, flines, fi, current_function, brace_count,
           function_content, functions>>

vProject == <<ppc, disk, files_to_analyze, file_content, changed,
              files_metrics, read_failed, read_empty, project, run,
              first_project>>

vDepth == <<dpc, dtext, dclean, di, current_depth, max_depth>>

vWarn == <<wpc, wmetrics, threshold, high_complexity_files>>

vScan == <<apc, tree, walk, file_stats, project_stats, scans>>

vars == <<vLines, vStrip, vCC, vFunc, vProject, vDepth, vWarn, vScan>>

\* the state of an operation that is not running
IdleLines ==
    /\ lpc = "idle" /\ readable = TRUE /\ nread = 0 /\ line = <<>>
    /\ kind = "none" /\ was_in_comment = FALSE
    /\ loc = 0 /\ comments = 0 /\ blank = 0 /\ in_multiline_comment = FALSE
IdleStrip ==
    /\ spc = "idle" /\ text = <<>> /\ content = <<>> /\ after_subs = <<>> /\ cut_at = 0
IdleCC ==
    /\ cpc = "idle" /\ ctext = <<>> /\ cclean = <<>> /\ pat = 0 /\ complexity = 0

IdleFunc ==
    /\ fpc = "idle" /\ ftext = <<>> /\ flines = <<>> /\ fi = 0
    /\ current_function = <<>> /\ brace_count = 0
    /\ function_content = <<>> /\ functions = <<>>

\* a variant that reports the base complexity 1 for an empty project
ZeroProject_Base ==
    [total_files |-> 0, total_loc |-> 0, total_comments |-> 0,
     total_blank_lines |-> 0, average_complexity |-> 100, max_complexity |-> 1,
     total_functions |-> 0, files_metrics |-> <<>>]

\* ProjectMetrics(0, 0, 0, 0, 0, 0, 0, [])
ZeroProject ==
    [total_files |-> 0, total_loc |-> 0, total_comments |-> 0,
     total_blank_lines |-> 0, average_complexity |-> 0, max_complexity |-> 0,
     total_functions |-> 0, files_metrics |-> <<>>]

IdleProject ==
    /\ ppc = "idle" /\ disk = <<>> /\ files_to_analyze = <<>>
    /\ file_content = <<>> /\ changed = FALSE /\ files_metrics = <<>>
    /\ read_failed = {} /\ read_empty = {} /\ project = ZeroProject
    /\ run = 0 /\ first_project = ZeroProject

IdleDepth ==
    /\ dpc = "idle" /\ dtext = <<>> /\ dclean = <<>> /\ di = 0
    /\ current_depth = 0 /\ max_depth = 0

IdleWarn ==
    /\ wpc = "idle" /\ wmetrics = <<>> /\ threshold = 0
    /\ high_complexity_files = <<>>

\* Optional[ProjectStats]: None is the empty sequence, a ProjectStats p is <<p>>
None == <<>>

IdleScan ==
    /\ apc = "idle" /\ tree = <<>> /\ walk = 0 /\ file_stats = <<>>
    /\ project_stats = None /\ scans = 0

\* what each operation leaves alone
FrameLines == UNCHANGED <<vStrip, vCC, vFunc, vProject, vDepth, vWarn, vScan>>
FrameStrip == UNCHANGED <<vLines, vCC, vFunc, vProject, vDepth, vWarn, vScan>>
FrameCC == UNCHANGED <<vLines, vStrip, vFunc, vProject, vDepth, vWarn, vScan>>
FrameFunc == UNCHANGED <<vLines, vStrip, vCC, vProject, vDepth, vWarn, vScan>>
FrameProject == UNCHANGED <<vLines, vStrip, vCC, vFunc, vDepth, vWarn, vScan>>
FrameDepth == UNCHANGED <<vLines, vStrip, vCC, vFunc, vProject, vWarn, vScan>>
FrameWarn == UNCHANGED <<vLines, vStrip, vCC, vFunc, vProject, vDepth, vScan>>
FrameScan == UNCHANGED <<vLines, vStrip, vCC, vFunc, vProject, vDepth, vWarn>>
\* a step inside one run of the engine
SameRun == UNCHANGED <<run, first_project>>

-----------------------------------------------------------------------------
(* Characters and generic sequence helpers *)

NL == "\n"
DQ == "\""
SQ == "'"
BS == "\\"

\* Python's str.isspace / the regex class \s, on the characters the model uses
IsSpace(c) == c \in {" ", "\t", NL, "\r"}

SeqsUpTo(S, n) == UNION {[1..k -> S] : k \in 0..n}

\* the least element of a non-empty set of integers
Least(S) == CHOOSE x \in S : \A y \in S : x <= y

\* s[i..] starts with the literal lit
MatchAt(s, i, lit) ==
    /\ i >= 1
    /\ i + Len(lit) - 1 <= Len(s)
    /\ \A k \in 1..Len(lit) : s[i + k - 1] = lit[k]

\* Python: lit in s
Contains(s, lit) == \E i \in 1..Len(s) : MatchAt(s, i, lit)

\* Python: s.find(lit) + 1 (0 when absent), searching from index from
FindFrom(s, lit, from) ==
    IF \E i \in from..Len(s) : MatchAt(s, i, lit)
    THEN CHOOSE i \in from..Len(s) :
            /\ MatchAt(s, i, lit)
            /\ \A j \in from..(i - 1) : ~MatchAt(s, j, lit)
    ELSE 0

\* Python: s.strip()
Strip(s) ==
    IF \A i \in 1..Len(s) : IsSpace(s[i]) THEN <<>>
    ELSE LET first == CHOOSE i \in 1..Len(s) :
                         ~IsSpace(s[i]) /\ \A j \in 1..(i - 1) : IsSpace(s[j])
             last  == CHOOSE i \in 1..Len(s) :
                         ~IsSpace(s[i]) /\ \A j \in (i + 1)..Len(s) : IsSpace(s[j])
         IN SubSeq(s, first, last)

-----------------------------------------------------------------------------
(* count_lines *)

MaxLineLen == 4
MaxLines == 3

LineAlphabet == {" ", "/", "*", "x"}

\* a statement between two comments: /**/x/**/
CodeBetween == <<"/", "*", "*", "/", "x", "/", "*", "*", "/">>

Lines == SeqsUpTo(LineAlphabet, MaxLineLen) \cup {CodeBetween}

\* re.match(r'^\s*/\*.*\*/\s*$', line)
MatchSingleLineBlock(s) ==
    \E i \in 1..Len(s), j \in 1..Len(s) :
        /\ \A k \in 1..(i - 1) : IsSpace(s[k])
        /\ MatchAt(s, i, <<"/", "*">>)
        /\ j >= i + 2
        /\ \A k \in (i + 2)..(j - 1) : s[k] # NL
        /\ MatchAt(s, j, <<"*", "/">>)
        /\ \A k \in (j + 2)..Len(s) : IsSpace(s[k])

\* A plausible slip: the closing-marker branch forgets comments += 1
ClassifyLine_NoCount(raw, flag) ==
    LET s == Strip(raw) IN
    IF s = <<>> THEN [kind |-> "blank", flag |-> flag]
    ELSE IF Contains(s, <<"/", "*">>) /\ Contains(s, <<"*", "/">>)
    THEN [kind |-> IF ~MatchSingleLineBlock(s) THEN "code" ELSE "comment",
          flag |-> flag]
    ELSE IF Contains(s, <<"/", "*">>) THEN [kind |-> "comment", flag |-> TRUE]
    ELSE IF Contains(s, <<"*", "/">>) THEN [kind |-> "none", flag |-> FALSE]
    ELSE IF flag THEN [kind |-> "comment", flag |-> flag]
    ELSE IF MatchAt(s, 1, <<"/", "/">>) THEN [kind |-> "comment", flag |-> flag]
    ELSE [kind |-> "code", flag |-> flag]

\* a variant without the branch "elif in_multiline_comment"
ClassifyLine_FlagIgnored(raw, flag) ==
    LET s == Strip(raw) IN
    IF s = <<>> THEN [kind |-> "blank", flag |-> flag]
    ELSE IF Contains(s, <<"/", "*">>) /\ Contains(s, <<"*", "/">>)
    THEN [kind |-> IF ~MatchSingleLineBlock(s) THEN "code" ELSE "comment",
          flag |-> flag]
    ELSE IF Contains(s, <<"/", "*">>) THEN [kind |-> "comment", flag |-> TRUE]
    ELSE IF Contains(s, <<"*", "/">>) THEN [kind |-> "comment", flag |-> FALSE]
    ELSE IF MatchAt(s, 1, <<"/", "/">>) THEN [kind |-> "comment", flag |-> flag]
    ELSE [kind |-> "code", flag |-> flag]

\* a variant in which a closing marker does not clear the flag
ClassifyLine_NoClear(raw, flag) ==
    LET s == Strip(raw) IN
    IF s = <<>> THEN [kind |-> "blank", flag |-> flag]
    ELSE IF Contains(s, <<"/", "*">>) /\ Contains(s, <<"*", "/">>)
    THEN [kind |-> IF ~MatchSingleLineBlock(s) THEN "code" ELSE "comment",
          flag |-> flag]
    ELSE IF Contains(s, <<"/", "*">>) THEN [kind |-> "comment", flag |-> TRUE]
    ELSE IF Contains(s, <<"*", "/">>) THEN [kind |-> "comment", flag |-> flag]
    ELSE IF flag THEN [kind |-> "comment", flag |-> flag]
    ELSE IF MatchAt(s, 1, <<"/", "/">>) THEN [kind |-> "comment", flag |-> flag]
    ELSE [kind |-> "code", flag |-> flag]

\* The body of the for loop: which counter the line increments, and the flag after it
ClassifyLine(raw, flag) ==
    LET s == Strip(raw) IN
    IF s = <<>> THEN [kind |-> "blank", flag |-> flag]
    ELSE IF Contains(s, <<"/", "*">>) /\ Contains(s, <<"*", "/">>)
    THEN [kind |-> IF ~MatchSingleLineBlock(s) THEN "code" ELSE "comment",
          flag |-> flag]
    ELSE IF Contains(s, <<"/", "*">>) THEN [kind |-> "comment", flag |-> TRUE]
    ELSE IF Contains(s, <<"*", "/">>) THEN [kind |-> "comment", flag |-> FALSE]
    ELSE IF flag THEN [kind |-> "comment", flag |-> flag]
    ELSE IF MatchAt(s, 1, <<"/", "/">>) THEN [kind |-> "comment", flag |-> flag]
    ELSE [kind |-> "code", flag |-> flag]

InitLines ==
    /\ lpc = "open"
    /\ readable = TRUE
    /\ nread = 0
    /\ line = <<>>
    /\ kind = "none"
    /\ was_in_comment = FALSE
    /\ loc = 0 /\ comments = 0 /\ blank = 0
    /\ in_multiline_comment = FALSE
    /\ IdleStrip /\ IdleCC /\ IdleFunc /\ IdleProject /\ IdleDepth /\ IdleWarn
    /\ IdleScan

\* open() and readlines() succeed; the counters are initialised
CountLinesOpen ==
    /\ FrameLines
    /\ lpc = "open"
    /\ lpc' = "for"
    /\ UNCHANGED <<readable, nread, line, kind, was_in_comment,
                   loc, comments, blank, in_multiline_comment>>

\* open() or readlines() raises: return 0, 0, 0
CountLinesReadError ==
    /\ FrameLines
    /\ lpc = "open"
    /\ lpc' = "returned"
    /\ readable' = FALSE
    /\ UNCHANGED <<nread, line, kind, was_in_comment,
                   loc, comments, blank, in_multiline_comment>>

\* "for line in lines": the next physical line of the file
CountLinesNext ==
    /\ FrameLines
    /\ lpc = "for"
    /\ nread < MaxLines
    /\ \E raw \in Lines : line' = raw
    /\ lpc' = "body"
    /\ UNCHANGED <<readable, nread, kind, was_in_comment,
                   loc, comments, blank, in_multiline_comment>>

\* the body of the loop on that line (the line is dead afterwards)
CountLinesBody ==
    /\ FrameLines
    /\ lpc = "body"
    /\ LET c == ClassifyLine(line, in_multiline_comment) IN
        /\ kind' = c.kind
        /\ in_multiline_comment' = c.flag
        /\ loc' = IF c.kind = "code" THEN loc + 1 ELSE loc
        /\ comments' = IF c.kind = "comment" THEN comments + 1 ELSE comments
        /\ blank' = IF c.kind = "blank" THEN blank + 1 ELSE blank
    /\ was_in_comment' = in_multiline_comment
    /\ line' = <<>>
    /\ nread' = nread + 1
    /\ lpc' = "for"
    /\ UNCHANGED readable

\* the lines are exhausted: return loc, comments, blank
CountLinesReturn ==
    /\ FrameLines
    /\ lpc = "for"
    /\ lpc' = "returned"
    /\ UNCHANGED <<readable, nread, line, kind, was_in_comment,
                   loc, comments, blank, in_multiline_comment>>

NextLines ==
    \/ CountLinesOpen
    \/ CountLinesReadError
    \/ CountLinesNext
    \/ CountLinesBody
    \/ CountLinesReturn

SpecLines == InitLines /\ [][NextLines]_vars

-----------------------------------------------------------------------------
(* remove_comments_and_strings *)

OPEN == <<"/", "*">>
CLOSE == <<"*", "/">>

\* In q(?:[^q\\]|\\.)*q with the opening quote at s[from - 1], index k is
\* where an element of the body (or the closing quote) begins iff the run of
\* backslashes that ends just before k, counted from index from, is even: a
\* backslash and the character it escapes form one element.
ElementStart(s, from, k) ==
    LET stop == Least({m \in from..k : \A n \in m..(k - 1) : s[n] = BS})
    IN (k - stop) % 2 = 0

\* The index of the quote closing the literal whose opening quote is
\* s[from - 1], or 0: q(?:[^q\\]|\\.)*q where "." matches no newline. The
\* alternatives of the body begin differently, so backtracking finds nothing
\* the first scan does not: the scan fails at a backslash that a newline or
\* the end of the text follows.
LiteralEnd(s, from, q) ==
    LET closes == {j \in from..Len(s) : s[j] = q /\ ElementStart(s, from, j)}
        fails  == {j \in from..Len(s) :
                      /\ s[j] = BS /\ ElementStart(s, from, j)
                      /\ (j = Len(s) \/ s[j + 1] = NL)}
    IN IF closes = {} THEN 0
       ELSE IF fails # {} /\ Least(fails) < Least(closes) THEN 0
       ELSE Least(closes)

\* re.sub(r'q(?:[^q\\]|\\.)*q', 'qq', s) from index i on, for the quote q
RECURSIVE SubLiterals(_, _, _)
SubLiterals(s, i, q) ==
    LET opens == {j \in i..Len(s) : s[j] = q /\ LiteralEnd(s, j + 1, q) # 0}
    IN IF opens = {} THEN SubSeq(s, i, Len(s))
       ELSE SubSeq(s, i, Least(opens) - 1) \o <<q, q>>
            \o SubLiterals(s, LiteralEnd(s, Least(opens) + 1, q) + 1, q)

\* the index of the first newline at or after i, or Len(s) + 1
EndOfLine(s, i) ==
    Least({j \in i..(Len(s) + 1) : j = Len(s) + 1 \/ s[j] = NL})

\* a variant that leaves the single-line comments in place
SubLineComments_Keep(s, i) == SubSeq(s, i, Len(s))

\* re.sub(r'//.*$', '', s, flags=re.MULTILINE) from index i on
RECURSIVE SubLineComments(_, _)
SubLineComments(s, i) ==
    LET at == {j \in i..Len(s) : MatchAt(s, j, <<"/", "/">>)}
    IN IF at = {} THEN SubSeq(s, i, Len(s))
       ELSE SubSeq(s, i, Least(at) - 1)
            \o SubLineComments(s, EndOfLine(s, Least(at)))

\* the three substitutions before the while loop
Substitutions(s) ==
    SubLineComments(SubLiterals(SubLiterals(s, 1, DQ), 1, SQ), 1)

\* re.search(multi_comment_start, content): match.start() + 1, or 0
CommentStart(c) == FindFrom(c, OPEN, 1)

\* re.search(multi_comment_end, content[start:]): index of its "*" in content, or 0
CommentEnd(c, start) == FindFrom(c, CLOSE, start)

\* a variant that leaves the comment it found in place
RemoveBlock_Keep(c, start, e) == c

\* content[:start] + content[end:]
RemoveBlock(c, start, e) == SubSeq(c, 1, start - 1) \o SubSeq(c, e + 2, Len(c))

\* A plausible slip: the unterminated comment is left in place
Truncate_Keep(c, start) == c

\* content[:start]
Truncate(c, start) == SubSeq(c, 1, start - 1)

\* the while loop as a whole
RECURSIVE BlockLoop(_)
BlockLoop(c) ==
    IF CommentStart(c) = 0 THEN c
    ELSE IF CommentEnd(c, CommentStart(c)) # 0
         THEN BlockLoop(RemoveBlock(c, CommentStart(c), CommentEnd(c, CommentStart(c))))
    ELSE Truncate(c, CommentStart(c))

remove_comments_and_strings(s) == BlockLoop(Substitutions(s))

MaxTextLen == 6
StripAlphabet == {DQ, SQ, BS, NL, "/", "*", "x"}

\* a ten-line text whose unterminated comment opens on line 5
TenLines ==
    <<"x", NL, "x", NL, "x", NL, "x", NL, "x", "/", "*", "x", NL,
      "x", NL, "x", NL, "x", NL, "x", NL, "x">>

\* a statement between two comments that each hold an apostrophe:
\*     //'
\*     x
\*     //'
Apostrophes == <<"/", "/", SQ, NL, "x", NL, "/", "/", SQ>>

InitStrip ==
    /\ text \in SeqsUpTo(StripAlphabet, MaxTextLen) \cup {TenLines, Apostrophes}
    /\ spc = "subs"
    /\ content = text
    /\ after_subs = <<>>
    /\ cut_at = 0
    /\ IdleLines /\ IdleCC /\ IdleFunc /\ IdleProject /\ IdleDepth /\ IdleWarn
    /\ IdleScan

\* the literal and single-line-comment substitutions
StripSubstitute ==
    /\ FrameStrip
    /\ spc = "subs"
    /\ content' = Substitutions(content)
    /\ after_subs' = content'
    /\ spc' = "while"
    /\ UNCHANGED <<text, cut_at>>

\* an iteration that finds no "/*": break
StripBreak ==
    /\ FrameStrip
    /\ spc = "while"
    /\ CommentStart(content) = 0
    /\ spc' = "returned"
    /\ UNCHANGED <<text, content, after_subs, cut_at>>

\* an iteration that finds "/*" and a "*/" after it: the comment is cut out
StripRemove ==
    /\ FrameStrip
    /\ spc = "while"
    /\ CommentStart(content) # 0
    /\ CommentEnd(content, CommentStart(content)) # 0
    /\ content' = RemoveBlock(content, CommentStart(content),
                              CommentEnd(content, CommentStart(content)))
    /\ UNCHANGED <<spc, text, after_subs, cut_at>>

\* an iteration that finds "/*" and no "*/" after it: truncate and break
StripTruncate ==
    /\ FrameStrip
    /\ spc = "while"
    /\ CommentStart(content) # 0
    /\ CommentEnd(content, CommentStart(content)) = 0
    /\ content' = Truncate(content, CommentStart(content))
    \* what follows "/*" is what followed it in after_subs
    /\ cut_at' = Len(after_subs) - Len(content) + CommentStart(content)
    /\ spc' = "returned"
    /\ UNCHANGED <<text, after_subs>>

NextStrip ==
    \/ StripSubstitute
    \/ StripBreak
    \/ StripRemove
    \/ StripTruncate

SpecStrip == InitStrip /\ [][NextStrip]_vars

\* The texts of slashes and stars: every way the markers of block comments
\* can follow and overlap each other
MaxLoopLen == 5
LoopAlphabet == {"/", "*", "x"}

InitStripLoop ==
    /\ text \in SeqsUpTo(LoopAlphabet, MaxLoopLen)
    /\ spc = "subs"
    /\ content = text
    /\ after_subs = <<>>
    /\ cut_at = 0
    /\ IdleLines /\ IdleCC /\ IdleFunc /\ IdleProject /\ IdleDepth /\ IdleWarn
    /\ IdleScan

\* the call runs to its return: the interpreter executes the next statement
\* as long as there is one
SpecStripFair == InitStripLoop /\ [][NextStrip]_vars /\ WF_vars(NextStrip)

-----------------------------------------------------------------------------
(* calculate_cyclomatic_complexity *)

UpperCase == <<"A", "B", "C", "D", "E", "F", "G", "H", "I", "J", "K", "L", "M",
               "N", "O", "P", "Q", "R", "S", "T", "U", "V", "W", "X", "Y", "Z">>
LowerCase == <<"a", "b", "c", "d", "e", "f", "g", "h", "i", "j", "k", "l", "m",
               "n", "o", "p", "q", "r", "s", "t", "u", "v", "w", "x", "y", "z">>
Digits == {"0", "1", "2", "3", "4", "5", "6", "7", "8", "9"}

\* the regex class \w
WordChars ==
    {UpperCase[k] : k \in 1..26} \cup {LowerCase[k] : k \in 1..26}
        \cup Digits \cup {"_"}

IsWord(c) == c \in WordChars

\* re.IGNORECASE: characters are compared in lower case
Lower(c) ==
    IF \E k \in 1..26 : c = UpperCase[k]
    THEN LowerCase[CHOOSE k \in 1..26 : c = UpperCase[k]]
    ELSE c

\* the regex assertion \b before s[i]
WordBoundary(s, i) ==
    (i - 1 >= 1 /\ i - 1 <= Len(s) /\ IsWord(s[i - 1]))
        # (i >= 1 /\ i <= Len(s) /\ IsWord(s[i]))

\* the index of the first character at or after i that is no white space
SkipSpace(s, i) ==
    Least({j \in i..(Len(s) + 1) : j = Len(s) + 1 \/ ~IsSpace(s[j])})

MatchWord(s, i, w) ==
    /\ i + Len(w) - 1 <= Len(s)
    /\ \A k \in 1..Len(w) : Lower(s[i + k - 1]) = w[k]

\* the control-structure patterns other than the ternary one, each as
\* \b word1 (\s+ word2)? then either \s+ (more = "+") or \s* and one character
ControlWords == <<
    [w1 |-> <<"i", "f">>,                     w2 |-> <<>>,         more |-> "("],
    [w1 |-> <<"e", "l", "s", "e">>,           w2 |-> <<"i", "f">>, more |-> "("],
    [w1 |-> <<"w", "h", "i", "l", "e">>,      w2 |-> <<>>,         more |-> "("],
    [w1 |-> <<"f", "o", "r">>,                w2 |-> <<>>,         more |-> "("],
    [w1 |-> <<"d", "o">>,                     w2 |-> <<>>,         more |-> "{"],
    [w1 |-> <<"s", "w", "i", "t", "c", "h">>, w2 |-> <<>>,         more |-> "("],
    [w1 |-> <<"c", "a", "s", "e">>,           w2 |-> <<>>,         more |-> "+"],
    [w1 |-> <<"c", "a", "t", "c", "h">>,      w2 |-> <<>>,         more |-> "("] >>

\* the index after the match of control_structures[n] (n <= 8) at i, or 0
ControlMatchEnd(s, i, n) ==
    LET cs  == ControlWords[n]
        a   == i + Len(cs.w1)
        \* after \s+ word2, when the pattern has a second word
        b   == IF cs.w2 = <<>> THEN a
               ELSE IF a <= Len(s) /\ IsSpace(s[a])
                       /\ MatchWord(s, SkipSpace(s, a), cs.w2)
                    THEN SkipSpace(s, a) + Len(cs.w2)
               ELSE 0
    IN IF ~(WordBoundary(s, i) /\ MatchWord(s, i, cs.w1)) \/ b = 0 THEN 0
       ELSE IF cs.more = "+"
            THEN IF b <= Len(s) /\ IsSpace(s[b]) THEN SkipSpace(s, b) ELSE 0
       ELSE IF SkipSpace(s, b) <= Len(s) /\ s[SkipSpace(s, b)] = cs.more
            THEN SkipSpace(s, b) + 1
       ELSE 0

\* r'\?\s*.*\s*:' at i: the index after the match the regex engine returns, or
\* 0. Each of \s*, .*, \s* is greedy and gives back one character at a time,
\* the later ones first, so the match is the one with the longest first \s*,
\* then the longest .*, then the longest second \s*.
TernaryMatchEnd(s, i) ==
    IF ~(i <= Len(s) /\ s[i] = "?") THEN 0
    ELSE
    LET Ends(k1) ==
            LET p == i + 1 + k1 IN
            {<<k2, k3>> \in (0..(EndOfLine(s, p) - p)) \X (0..Len(s)) :
                /\ p + k2 + k3 <= SkipSpace(s, p + k2)
                /\ p + k2 + k3 <= Len(s)
                /\ s[p + k2 + k3] = ":"}
        K1 == {k1 \in 0..(SkipSpace(s, i + 1) - (i + 1)) : Ends(k1) # {}}
    IN IF K1 = {} THEN 0
       ELSE LET k1 == CHOOSE k \in K1 : \A o \in K1 : o <= k
                e  == CHOOSE m \in Ends(k1) :
                        \A o \in Ends(k1) :
                            o[1] < m[1] \/ (o[1] = m[1] /\ o[2] <= m[2])
            IN i + 1 + k1 + e[1] + e[2] + 1

NumPatterns == 9

\* the index after the match of control_structures[n] at i, or 0
PatternMatchEnd(s, i, n) ==
    IF n = NumPatterns THEN TernaryMatchEnd(s, i) ELSE ControlMatchEnd(s, i, n)

\* len(re.findall(control_structures[n], s)), counting from index i on:
\* the matches are taken left to right and do not overlap
RECURSIVE CountMatches(_, _, _)
CountMatches(s, i, n) ==
    LET at == {j \in i..Len(s) : PatternMatchEnd(s, j, n) # 0}
    IN IF at = {} THEN 0
       ELSE 1 + CountMatches(s, PatternMatchEnd(s, Least(at), n), n)

\* A plausible slip: a match of "else if (" is not counted again as "if ("
FindAll_Dedup(s, n) ==
    IF n = 1 THEN CountMatches(s, 1, 1) - CountMatches(s, 1, 2)
    ELSE CountMatches(s, 1, n)

\* len(re.findall(pattern, content, re.IGNORECASE | re.MULTILINE))
FindAll(s, n) == CountMatches(s, 1, n)

RECURSIVE SumMatches(_, _)
SumMatches(s, n) ==
    IF n = 0 THEN 0 ELSE SumMatches(s, n - 1) + FindAll(s, n)

\* a variant that forgets the base path: complexity starts at 0
calculate_cyclomatic_complexity_NoOne(s) ==
    SumMatches(remove_comments_and_strings(s), NumPatterns)

\* a variant in which an empty text has no base path
calculate_cyclomatic_complexity_NoBase(s) ==
    IF s = <<>> THEN 0
    ELSE 1 + SumMatches(remove_comments_and_strings(s), NumPatterns)

\* complexity = 1, plus the number of matches of each pattern in the stripped text
calculate_cyclomatic_complexity(s) ==
    1 + SumMatches(remove_comments_and_strings(s), NumPatterns)

MaxCCToks == 3

\* pieces of program text that the patterns are tried on
CCTokens == {
    <<"i", "f", " ", "(">>, <<"I", "F", "(">>, <<"e", "l", "s", "e", " ">>,
    <<"w", "h", "i", "l", "e", "(">>, <<"f", "o", "r", " ", "(">>,
    <<"d", "o", " ", "{">>, <<"s", "w", "i", "t", "c", "h", "(">>,
    <<"c", "a", "s", "e", " ">>, <<"c", "a", "t", "c", "h", " ", "(">>,
    <<"?", " ">>, <<":">>, <<"x">>, <<NL>>, <<"/", "/">> }

RECURSIVE Flatten(_)
Flatten(ts) == IF ts = <<>> THEN <<>> ELSE Head(ts) \o Flatten(Tail(ts))

\* if (x) { if (y) { z(); } }
Nested ==
    <<"i", "f", " ", "(", "x", ")", " ", "{", " ", "i", "f", " ", "(", "y", ")",
      " ", "{", " ", "z", "(", ")", ";", " ", "}", " ", "}">>

\* x = c ? a : b; y = d ? e : f;
TwoTernaries ==
    <<"x", " ", "=", " ", "c", " ", "?", " ", "a", " ", ":", " ", "b", ";", " ",
      "y", " ", "=", " ", "d", " ", "?", " ", "e", " ", ":", " ", "f", ";">>

\* else if (
ElseIf == <<"e", "l", "s", "e", " ", "i", "f", " ", "(">>

InitCC ==
    /\ ctext \in {Flatten(ts) : ts \in SeqsUpTo(CCTokens, MaxCCToks)}
                 \cup {Nested, TwoTernaries}
    /\ cpc = "strip"
    /\ cclean = <<>>
    /\ pat = 0
    /\ complexity = 0
    /\ IdleLines /\ IdleStrip /\ IdleFunc /\ IdleProject /\ IdleDepth /\ IdleWarn
    /\ IdleScan

\* content = self.remove_comments_and_strings(content); complexity = 1
CCStrip ==
    /\ FrameCC
    /\ cpc = "strip"
    /\ cclean' = remove_comments_and_strings(ctext)
    /\ complexity' = 1
    /\ pat' = 1
    /\ cpc' = "for"
    /\ UNCHANGED ctext

\* one iteration of "for pattern in self.control_structures"
CCCount ==
    /\ FrameCC
    /\ cpc = "for"
    /\ pat <= NumPatterns
    /\ complexity' = complexity + FindAll(cclean, pat)
    /\ pat' = pat + 1
    /\ UNCHANGED <<cpc, ctext, cclean>>

\* return complexity
CCReturn ==
    /\ FrameCC
    /\ cpc = "for"
    /\ pat > NumPatterns
    /\ cpc' = "returned"
    /\ UNCHANGED <<ctext, cclean, pat, complexity>>

NextCC ==
    \/ CCStrip
    \/ CCCount
    \/ CCReturn

SpecCC == InitCC /\ [][NextCC]_vars

-----------------------------------------------------------------------------
(* find_functions *)

\* Matching function_pattern on a line s. Each operator maps a set P of
\* indices at which the part of the pattern before it can end to the set of
\* indices at which it can end itself; an index is that of the next character
\* to match.

\* \s*
AfterSpaces(s, P) ==
    {j \in 1..(Len(s) + 1) : \E i \in P : i <= j /\ \A k \in i..(j - 1) : IsSpace(s[k])}

\* \s+
AfterSpaces1(s, P) ==
    {j \in 1..(Len(s) + 1) : \E i \in P : i < j /\ \A k \in i..(j - 1) : IsSpace(s[k])}

\* \w+
AfterWord(s, P) ==
    {j \in 1..(Len(s) + 1) : \E i \in P : i < j /\ \A k \in i..(j - 1) : IsWord(s[k])}

\* a literal
AfterLit(s, P, lit) == {i + Len(lit) : i \in {j \in P : MatchAt(s, j, lit)}}

Qualifiers == {
    <<"i", "n", "l", "i", "n", "e">>, <<"s", "t", "a", "t", "i", "c">>,
    <<"v", "i", "r", "t", "u", "a", "l">>,
    <<"e", "x", "p", "l", "i", "c", "i", "t">>, <<"c", "o", "n", "s", "t">> }

KwConst == <<"c", "o", "n", "s", "t">>
KwOverride == <<"o", "v", "e", "r", "r", "i", "d", "e">>
KwFinal == <<"f", "i", "n", "a", "l">>

\* (?:inline|static|virtual|explicit|const)\s+
AfterQualifier(s, P) ==
    AfterSpaces1(s, UNION {AfterLit(s, P, q) : q \in Qualifiers})

\* (?:(?:inline|static|virtual|explicit|const)\s+)*
RECURSIVE AfterQualifiers(_, _)
AfterQualifiers(s, P) ==
    IF AfterQualifier(s, P) \subseteq P THEN P
    ELSE AfterQualifiers(s, P \cup AfterQualifier(s, P))

\* \w+(?:\s*\*|\s*&)?(?:\s*const)?\s+
AfterTypeToken(s, P) ==
    LET w == AfterWord(s, P)
        r == w \cup AfterLit(s, AfterSpaces(s, w), <<"*">>)
               \cup AfterLit(s, AfterSpaces(s, w), <<"&">>)
        c == r \cup AfterLit(s, AfterSpaces(s, r), KwConst)
    IN AfterSpaces1(s, c)

\* (?:\w+(?:\s*\*|\s*&)?(?:\s*const)?\s+)+, given the ends P of one or more
RECURSIVE AfterTypeTokens(_, _)
AfterTypeTokens(s, P) ==
    IF AfterTypeToken(s, P) \subseteq P THEN P
    ELSE AfterTypeTokens(s, P \cup AfterTypeToken(s, P))

\* \s*\([^;]*\)\s*(?:const\s*)?(?:override\s*)?(?:final\s*)?\s*\{ matches at i
HeaderRest(s, i) ==
    LET r1 == AfterLit(s, AfterSpaces(s, {i}), <<"(">>)
        r2 == {j + 1 : j \in {j \in 1..Len(s) :
                  /\ s[j] = ")"
                  /\ \E a \in r1 : a <= j /\ \A k \in a..(j - 1) : s[k] # ";"}}
        r3 == AfterSpaces(s, r2)
        r4 == r3 \cup AfterSpaces(s, AfterLit(s, r3, KwConst))
        r5 == r4 \cup AfterSpaces(s, AfterLit(s, r4, KwOverride))
        r6 == r5 \cup AfterSpaces(s, AfterLit(s, r5, KwFinal))
    IN AfterLit(s, AfterSpaces(s, r6), <<"{">>) # {}

\* the <<start, end>> of group 1 in the matches of function_pattern on s (the
\* pattern is anchored by ^, so a match starts at the first character)
HeaderNames(s) ==
    LET starts == AfterTypeTokens(s,
                      AfterTypeToken(s, AfterQualifiers(s, AfterSpaces(s, {1}))))
    IN UNION {{<<a, e>> : e \in {j \in AfterWord(s, {a}) : HeaderRest(s, j)}} :
                 a \in starts}

\* func_match.group(1) of re.search(self.function_pattern, line), <<>> when
\* there is no match. Group 1 is a whole word that follows white space and
\* is followed by the first "(" of the line, so every match has the same.
FuncMatch(s) ==
    IF HeaderNames(s) = {} THEN <<>>
    ELSE LET ne == CHOOSE x \in HeaderNames(s) : TRUE
         IN SubSeq(s, ne[1], ne[2] - 1)

\* line.count(c)
Count(s, c) == Cardinality({i \in 1..Len(s) : s[i] = c})

\* s.split('\n') from index i on
RECURSIVE SplitFrom(_, _)
SplitFrom(s, i) ==
    IF EndOfLine(s, i) > Len(s) THEN <<SubSeq(s, i, Len(s))>>
    ELSE <<SubSeq(s, i, EndOfLine(s, i) - 1)>> \o SplitFrom(s, EndOfLine(s, i) + 1)

Split(s) == SplitFrom(s, 1)

\* '\n'.join(ls)
RECURSIVE Join(_)
Join(ls) ==
    IF ls = <<>> THEN <<>>
    ELSE IF Len(ls) = 1 THEN ls[1]
    ELSE ls[1] \o <<NL>> \o Join(Tail(ls))

\* a variant that counts only the lines between the header and the closing line
FuncLine_Inner(st, ln) ==
    IF FuncMatch(ln) # <<>> /\ st.current_function = <<>>
    THEN [current_function |-> FuncMatch(ln),
          function_content |-> <<ln>>,
          brace_count      |-> Count(ln, "{") - Count(ln, "}"),
          functions        |-> st.functions]
    ELSE IF st.current_function # <<>>
    THEN LET fc == Append(st.function_content, ln)
             bc == st.brace_count + Count(ln, "{") - Count(ln, "}")
         IN IF bc <= 0
            THEN [current_function |-> <<>>,
                  function_content |-> <<>>,
                  brace_count      |-> 0,
                  functions        |-> Append(st.functions,
                      [name |-> st.current_function,
                       complexity |-> calculate_cyclomatic_complexity(Join(fc)),
                       body_line_count |-> Len(fc) - 2])]
            ELSE [current_function |-> st.current_function,
                  function_content |-> fc,
                  brace_count      |-> bc,
                  functions        |-> st.functions]
    ELSE st

\* a variant that opens a function at every header line, also while one is open
FuncLine_Reopen(st, ln) ==
    IF FuncMatch(ln) # <<>>
    THEN [current_function |-> FuncMatch(ln),
          function_content |-> <<ln>>,
          brace_count      |-> Count(ln, "{") - Count(ln, "}"),
          functions        |-> st.functions]
    ELSE IF st.current_function # <<>>
    THEN LET fc == Append(st.function_content, ln)
             bc == st.brace_count + Count(ln, "{") - Count(ln, "}")
         IN IF bc <= 0
            THEN [current_function |-> <<>>,
                  function_content |-> <<>>,
                  brace_count      |-> 0,
                  functions        |-> Append(st.functions,
                      [name |-> st.current_function,
                       complexity |-> calculate_cyclomatic_complexity(Join(fc)),
                       body_line_count |-> Len(fc)])]
            ELSE [current_function |-> st.current_function,
                  function_content |-> fc,
                  brace_count      |-> bc,
                  functions        |-> st.functions]
    ELSE st

\* a variant that completes an open function at the line after its header,
\* whatever the depth
FuncLine_CloseAlways(st, ln) ==
    IF FuncMatch(ln) # <<>> /\ st.current_function = <<>>
    THEN [current_function |-> FuncMatch(ln),
          function_content |-> <<ln>>,
          brace_count      |-> Count(ln, "{") - Count(ln, "}"),
          functions        |-> st.functions]
    ELSE IF st.current_function # <<>>
    THEN LET fc == Append(st.function_content, ln)
         IN [current_function |-> <<>>,
             function_content |-> <<>>,
             brace_count      |-> 0,
             functions        |-> Append(st.functions,
                 [name |-> st.current_function,
                  complexity |-> calculate_cyclomatic_complexity(Join(fc)),
                  body_line_count |-> Len(fc)])]
    ELSE st

\* The body of "for i, line in enumerate(lines)" on the line ln, as a map on
\* the loop's variables
FuncLine(st, ln) ==
    IF FuncMatch(ln) # <<>> /\ st.current_function = <<>>
    THEN [current_function |-> FuncMatch(ln),
          function_content |-> <<ln>>,
          brace_count      |-> Count(ln, "{") - Count(ln, "}"),
          functions        |-> st.functions]
    ELSE IF st.current_function # <<>>
    THEN LET fc == Append(st.function_content, ln)
             bc == st.brace_count + Count(ln, "{") - Count(ln, "}")
         IN IF bc <= 0
            THEN [current_function |-> <<>>,
                  function_content |-> <<>>,
                  brace_count      |-> 0,
                  functions        |-> Append(st.functions,
                      [name |-> st.current_function,
                       complexity |-> calculate_cyclomatic_complexity(Join(fc)),
                       body_line_count |-> Len(fc)])]
            ELSE [current_function |-> st.current_function,
                  function_content |-> fc,
                  brace_count      |-> bc,
                  functions        |-> st.functions]
    ELSE st

MaxFuncLines == 3

\* int add(int a, int b) { return a + b; }
AddLine ==
    <<"i", "n", "t", " ", "a", "d", "d", "(", "i", "n", "t", " ", "a", ",", " ",
      "i", "n", "t", " ", "b", ")", " ", "{", " ", "r", "e", "t", "u", "r", "n",
      " ", "a", " ", "+", " ", "b", ";", " ", "}">>

\* the lines a text is made of
FuncLines == {
    AddLine,
    <<"i", "n", "t", " ", "f", "(", ")", " ", "{">>,       \* int f() {
    <<"}">>,
    <<"i", "f", " ", "(", "x", ")", " ", "{">>,            \* if (x) {
    <<"x", ";">>,
    <<>> }

\* a function whose ternary holds a string that ends its line with "//\":
\*     int f() { a ? "//\
\*     " : d; }
TernaryText ==
    Join(<< <<"i", "n", "t", " ", "f", "(", ")", " ", "{", " ", "a", " ", "?",
              " ", DQ, "/", "/", BS>>,
            <<DQ, " ", ":", " ", "d", ";", " ", "}">> >>)

InitFunc ==
    /\ ftext \in {Join(ls) : ls \in SeqsUpTo(FuncLines, MaxFuncLines)}
                 \cup {TernaryText}
    /\ fpc = "strip"
    /\ flines = <<>>
    /\ fi = 0
    /\ current_function = <<>>
    /\ brace_count = 0
    /\ function_content = <<>>
    /\ functions = <<>>
    /\ IdleLines /\ IdleStrip /\ IdleCC /\ IdleProject /\ IdleDepth /\ IdleWarn
    /\ IdleScan

\* content_clean = ...; lines = content_clean.split('\n'); the loop variables
FFStrip ==
    /\ FrameFunc
    /\ fpc = "strip"
    /\ flines' = Split(remove_comments_and_strings(ftext))
    /\ fpc' = "for"
    /\ UNCHANGED <<ftext, fi, current_function, brace_count,
                   function_content, functions>>

\* one iteration of the loop over the lines
FFLine ==
    /\ FrameFunc
    /\ fpc = "for"
    /\ fi < Len(flines)
    /\ LET st == FuncLine([current_function |-> current_function,
                           function_content |-> function_content,
                           brace_count |-> brace_count,
                           functions |-> functions], flines[fi + 1])
       IN /\ current_function' = st.current_function
          /\ function_content' = st.function_content
          /\ brace_count' = st.brace_count
          /\ functions' = st.functions
    /\ fi' = fi + 1
    /\ UNCHANGED <<fpc, ftext, flines>>

\* return functions
FFReturn ==
    /\ FrameFunc
    /\ fpc = "for"
    /\ fi = Len(flines)
    /\ fpc' = "returned"
    /\ UNCHANGED <<ftext, flines, fi, current_function, brace_count,
                   function_content, functions>>

NextFunc ==
    \/ FFStrip
    \/ FFLine
    \/ FFReturn

SpecFunc == InitFunc /\ [][NextFunc]_vars

-----------------------------------------------------------------------------
(* analyze_file and analyze_project *)

\* f.readlines(): the lines of a text, a last line only when it is not empty
ReadLines(s) ==
    LET ls == Split(s)
    IN IF ls[Len(ls)] = <<>> THEN SubSeq(ls, 1, Len(ls) - 1) ELSE ls

\* the loop of count_lines over the lines from the n-th on
RECURSIVE CountFrom(_, _, _, _)
CountFrom(ls, n, flag, acc) ==
    IF n > Len(ls) THEN acc
    ELSE LET c == ClassifyLine(ls[n], flag)
         IN CountFrom(ls, n + 1, c.flag,
                [loc      |-> acc.loc + (IF c.kind = "code" THEN 1 ELSE 0),
                 comments |-> acc.comments + (IF c.kind = "comment" THEN 1 ELSE 0),
                 blank    |-> acc.blank + (IF c.kind = "blank" THEN 1 ELSE 0)])

\* what count_lines returns for a file: ok tells whether its open() succeeds
count_lines(file) ==
    IF file.ok
    THEN CountFrom(ReadLines(file.data), 1, FALSE, [loc |-> 0, comments |-> 0, blank |-> 0])
    ELSE [loc |-> 0, comments |-> 0, blank |-> 0]

\* the loop of find_functions over the lines from the n-th on
RECURSIVE FunctionsFrom(_, _, _)
FunctionsFrom(ls, n, st) ==
    IF n > Len(ls) THEN st.functions
    ELSE FunctionsFrom(ls, n + 1, FuncLine(st, ls[n]))

find_functions(s) ==
    FunctionsFrom(Split(remove_comments_and_strings(s)), 1,
                  [current_function |-> <<>>, function_content |-> <<>>,
                   brace_count |-> 0, functions |-> <<>>])

\* the positions of the braces of a text, in order
BracesFrom(s, i) == {j \in i..Len(s) : s[j] \in {"{", "}"}}

\* the loop of calculate_nesting_depth from position i on
RECURSIVE DepthFrom(_, _, _, _)
DepthFrom(s, i, depth, deepest) ==
    IF BracesFrom(s, i) = {} THEN deepest
    ELSE LET j == Least(BracesFrom(s, i))
         IN IF s[j] = "{"
            THEN DepthFrom(s, j + 1, depth + 1,
                           IF depth + 1 > deepest THEN depth + 1
                           ELSE deepest)
            ELSE DepthFrom(s, j + 1,
                           IF depth - 1 > 0 THEN depth - 1 ELSE 0,
                           deepest)

calculate_nesting_depth(s) == DepthFrom(remove_comments_and_strings(s), 1, 0, 0)

\* sum(xs) and max(xs) of a list of numbers
RECURSIVE SumSeq(_)
SumSeq(xs) == IF xs = <<>> THEN 0 ELSE Head(xs) + SumSeq(Tail(xs))

\* a variant that takes the last element for the largest
MaxSeq_Last(xs) == xs[Len(xs)]

MaxSeq(xs) == CHOOSE m \in {xs[i] : i \in 1..Len(xs)} : \A i \in 1..Len(xs) : xs[i] <= m

\* round(statistics.mean(xs), 2) in hundredths, for a non-empty list of
\* integers: the mean is the exact quotient, rounded half to even
Round2(total, n) ==
    LET q == (100 * total) \div n
        r == (100 * total) % n
    IN IF 2 * r < n THEN q
       ELSE IF 2 * r > n THEN q + 1
       ELSE IF q % 2 = 0 THEN q ELSE q + 1

\* the FileMetrics returned when the first read fails
ZeroFile(f) ==
    [filename |-> f, lines_of_code |-> 0, lines_of_comments |-> 0,
     blank_lines |-> 0, cyclomatic_complexity |-> 0, functions_count |-> 0,
     max_function_complexity |-> 0, average_function_complexity |-> 0,
     nested_depth |-> 0]

MaxFiles == 3

EmptyFile == <<>>

\* x;
PlainFile == <<"x", ";", NL>>

\* a comment line, a blank line, a function with two nested decisions and
\* a function without any
FuncFile ==
    Join(<< <<"/", "/", " ", "c">>,
            <<>>,
            <<"i", "n", "t", " ", "f", "(", ")", " ", "{">>,
            <<"i", "f", " ", "(", "x", ")", " ", "{">>,
            <<"w", "h", "i", "l", "e", " ", "(", "y", ")", " ", "{", "}">>,
            <<"}">>,
            <<"}">>,
            <<"i", "n", "t", " ", "g", "(", ")", " ", "{">>,
            <<"}">> >>) \o <<NL>>

FileTexts == {EmptyFile, PlainFile, FuncFile}

\* What analyze_file computes from content: the three calls of lines 214-216
Analysis(t) ==
    [file_complexity |-> calculate_cyclomatic_complexity(t),
     functions       |-> find_functions(t),
     nesting_depth   |-> calculate_nesting_depth(t)]

\* the analysis of the texts of the model, computed once
Analyses == {<<t, Analysis(t)>> : t \in FileTexts}

AnalysisOf(t) == (CHOOSE p \in Analyses : p[1] = t)[2]

\* the FileMetrics analyze_file builds from the analysis a of the content it
\* read and from what count_lines returned; average_function_complexity is
\* in hundredths
FileMetricsOf(f, a, counts) ==
    LET function_complexities ==
            [i \in 1..Len(a.functions) |-> a.functions[i].complexity]
    IN [filename |-> f,
        lines_of_code |-> counts.loc,
        lines_of_comments |-> counts.comments,
        blank_lines |-> counts.blank,
        cyclomatic_complexity |-> a.file_complexity,
        functions_count |-> Len(a.functions),
        max_function_complexity |->
            IF a.functions # <<>> THEN MaxSeq(function_complexities) ELSE 0,
        average_function_complexity |->
            IF a.functions # <<>>
            THEN Round2(SumSeq(function_complexities), Len(a.functions)) ELSE 0,
        nested_depth |-> a.nesting_depth]

\* analyze_file from line 212 on, for the content read and the file as it is
\* when count_lines opens it
Metrics(f, c, file) == FileMetricsOf(f, AnalysisOf(c), count_lines(file))

\* [fm.cyclomatic_complexity for fm in files_metrics if fm.cyclomatic_complexity >= 0]
Complexities_All(fms) ==
    [i \in 1..Len(fms) |-> fms[i].cyclomatic_complexity]

\* [fm.cyclomatic_complexity for fm in files_metrics if fm.cyclomatic_complexity > 0]
Complexities(fms) ==
    SelectSeq([i \in 1..Len(fms) |-> fms[i].cyclomatic_complexity], LAMBDA x : x > 0)

\* the ProjectMetrics analyze_project builds; average_complexity is in hundredths
ProjectMetricsOf(fms) ==
    LET complexities == Complexities(fms)
    IN [total_files |-> Len(fms),
        total_loc |-> SumSeq([i \in 1..Len(fms) |-> fms[i].lines_of_code]),
        total_comments |-> SumSeq([i \in 1..Len(fms) |-> fms[i].lines_of_comments]),
        total_blank_lines |-> SumSeq([i \in 1..Len(fms) |-> fms[i].blank_lines]),
        average_complexity |->
            IF complexities # <<>>
            THEN Round2(SumSeq(complexities), Len(complexities)) ELSE 0,
        max_complexity |-> IF complexities # <<>> THEN MaxSeq(complexities) ELSE 0,
        total_functions |-> SumSeq([i \in 1..Len(fms) |-> fms[i].functions_count]),
        files_metrics |-> fms]

\* what a file can be on disk
FileStates == [data : FileTexts, ok : BOOLEAN]

\* the file the loop of analyze_project is at, and its index
CurrentIndex == Len(files_metrics) + 1
CurrentFile == files_to_analyze[CurrentIndex]

InitProject ==
    /\ \E n \in 0..MaxFiles :
          /\ files_to_analyze = [i \in 1..n |-> i]
          /\ disk \in [1..n -> FileStates]
    /\ ppc = "discover"
    /\ file_content = <<>>
    /\ changed = FALSE
    /\ files_metrics = <<>>
    /\ read_failed = {}
    /\ read_empty = {}
    /\ project = ZeroProject
    /\ run = 1
    /\ first_project = ZeroProject
    /\ IdleLines /\ IdleStrip /\ IdleCC /\ IdleFunc /\ IdleDepth /\ IdleWarn
    /\ IdleScan

\* if not files_to_analyze: return ProjectMetrics(0, 0, 0, 0, 0, 0, 0, [])
APNoFiles ==
    /\ FrameProject /\ SameRun
    /\ ppc = "discover"
    /\ files_to_analyze = <<>>
    /\ project' = ZeroProject
    /\ ppc' = "returned"
    /\ UNCHANGED <<disk, files_to_analyze, file_content, changed, files_metrics,
                   read_failed, read_empty>>

\* files were found: the loop over them is entered
APFiles ==
    /\ FrameProject /\ SameRun
    /\ ppc = "discover"
    /\ files_to_analyze # <<>>
    /\ ppc' = "for"
    /\ UNCHANGED <<disk, files_to_analyze, file_content, changed, files_metrics,
                   read_failed, read_empty, project>>

\* analyze_file: content = f.read() succeeds
AFRead ==
    /\ FrameProject /\ SameRun
    /\ ppc = "for"
    /\ CurrentIndex <= Len(files_to_analyze)
    /\ disk[CurrentFile].ok
    /\ file_content' = disk[CurrentFile].data
    /\ read_empty' = IF disk[CurrentFile].data = <<>>
                     THEN read_empty \cup {CurrentIndex} ELSE read_empty
    /\ ppc' = "count"
    /\ UNCHANGED <<disk, files_to_analyze, changed, files_metrics, read_failed,
                   project>>

\* analyze_file: the read raises, the zeroed FileMetrics is returned and appended
AFReadError ==
    /\ FrameProject /\ SameRun
    /\ ppc = "for"
    /\ CurrentIndex <= Len(files_to_analyze)
    /\ ~disk[CurrentFile].ok
    /\ files_metrics' = Append(files_metrics, ZeroFile(CurrentFile))
    /\ read_failed' = read_failed \cup {CurrentIndex}
    /\ UNCHANGED <<ppc, disk, files_to_analyze, file_content, changed, read_empty,
                   project>>

\* Another process rewrites, removes or locks the file between the read of
\* analyze_file and the one of count_lines.  One change is enough: a change
\* before the first read is another initial disk, one after the second read
\* is not seen.
FileChanged ==
    /\ FrameProject /\ SameRun
    /\ ppc = "count"
    /\ ~changed
    /\ \E st \in FileStates \ {disk[CurrentFile]} :
          disk' = [disk EXCEPT ![CurrentFile] = st]
    /\ changed' = TRUE
    /\ UNCHANGED <<ppc, files_to_analyze, file_content, files_metrics, read_failed,
                   read_empty, project>>

\* analyze_file: count_lines reads the file, the metrics are computed from
\* content, the FileMetrics is returned and appended
AFMetrics ==
    /\ FrameProject /\ SameRun
    /\ ppc = "count"
    /\ disk[CurrentFile].ok
    /\ files_metrics' = Append(files_metrics,
                               Metrics(CurrentFile, file_content, disk[CurrentFile]))
    /\ file_content' = <<>>
    /\ changed' = FALSE
    /\ ppc' = "for"
    /\ UNCHANGED <<disk, files_to_analyze, read_failed, read_empty, project>>

\* analyze_file: the read of count_lines raises, count_lines returns 0, 0, 0
\* and the other metrics are computed from content
AFCountLinesError ==
    /\ FrameProject /\ SameRun
    /\ ppc = "count"
    /\ ~disk[CurrentFile].ok
    /\ files_metrics' = Append(files_metrics,
                               Metrics(CurrentFile, file_content, disk[CurrentFile]))
    /\ read_failed' = read_failed \cup {CurrentIndex}
    /\ file_content' = <<>>
    /\ changed' = FALSE
    /\ ppc' = "for"
    /\ UNCHANGED <<disk, files_to_analyze, read_empty, project>>

\* the loop is over: the project metrics are computed and returned
APReturn ==
    /\ FrameProject /\ SameRun
    /\ ppc = "for"
    /\ CurrentIndex > Len(files_to_analyze)
    /\ project' = ProjectMetricsOf(files_metrics)
    /\ ppc' = "returned"
    /\ UNCHANGED <<disk, files_to_analyze, file_content, changed, files_metrics,
                   read_failed, read_empty>>

NextProject ==
    \/ APNoFiles
    \/ APFiles
    \/ AFRead
    \/ AFReadError
    \/ FileChanged
    \/ AFMetrics
    \/ AFCountLinesError
    \/ APReturn

SpecProject == InitProject /\ [][NextProject]_vars

\* list(set(files_to_analyze)): the orders a set of paths can be listed in.
\* The order follows the hashes of the paths, which change from one process
\* to the next.
Orders(fs) ==
    {p \in [1..Len(fs) -> {fs[i] : i \in 1..Len(fs)}] :
        \A i, j \in 1..Len(fs) : p[i] = p[j] => i = j}

\* The engine is run a second time, in a new process, on the same files: the
\* discovery lists them in one of the orders of the set
APAgain ==
    /\ FrameProject
    /\ ppc = "returned"
    /\ run = 1
    /\ first_project' = project
    /\ run' = 2
    /\ files_to_analyze' \in Orders(files_to_analyze)
    /\ ppc' = "discover"
    /\ file_content' = <<>>
    /\ changed' = FALSE
    /\ files_metrics' = <<>>
    /\ read_failed' = {}
    /\ read_empty' = {}
    /\ project' = ZeroProject
    /\ UNCHANGED disk

\* two runs of the engine on files that nothing changes
NextRuns ==
    \/ APNoFiles
    \/ APFiles
    \/ AFRead
    \/ AFReadError
    \/ AFMetrics
    \/ APReturn
    \/ APAgain

SpecRuns == InitProject /\ [][NextRuns]_vars

-----------------------------------------------------------------------------
(* The loop of calculate_nesting_depth, step by step *)

\* a variant that lets the counter go below 0
Decrement_Unclamped(d) == d - 1

\* max(0, current_depth - 1)
Decrement(d) == IF d - 1 > 0 THEN d - 1 ELSE 0

MaxDepthLen == 5

DepthAlphabet == {"{", "}", DQ, "x"}

\* if (x) { if (y) { z(); } }
NestedIfs ==
    <<"i", "f", " ", "(", "x", ")", " ", "{", " ", "i", "f", " ", "(", "y", ")",
      " ", "{", " ", "z", "(", ")", ";", " ", "}", " ", "}">>

\* } {
CloseOpen == <<"}", " ", "{">>

InitDepth ==
    /\ dtext \in SeqsUpTo(DepthAlphabet, MaxDepthLen) \cup {NestedIfs, CloseOpen}
    /\ dpc = "strip"
    /\ dclean = <<>>
    /\ di = 0
    /\ current_depth = 0
    /\ max_depth = 0
    /\ IdleLines /\ IdleStrip /\ IdleCC /\ IdleFunc /\ IdleProject /\ IdleWarn
    /\ IdleScan

\* content = self.remove_comments_and_strings(content); the two counters are 0
DepthStrip ==
    /\ FrameDepth
    /\ dpc = "strip"
    /\ dclean' = remove_comments_and_strings(dtext)
    /\ dpc' = "for"
    /\ UNCHANGED <<dtext, di, current_depth, max_depth>>

\* char == '{'
DepthOpen ==
    /\ FrameDepth
    /\ dpc = "for"
    /\ di < Len(dclean)
    /\ dclean[di + 1] = "{"
    /\ current_depth' = current_depth + 1
    /\ max_depth' = IF current_depth + 1 > max_depth THEN current_depth + 1
                    ELSE max_depth
    /\ di' = di + 1
    /\ UNCHANGED <<dpc, dtext, dclean>>

\* char == '}'
DepthClose ==
    /\ FrameDepth
    /\ dpc = "for"
    /\ di < Len(dclean)
    /\ dclean[di + 1] = "}"
    /\ current_depth' = Decrement(current_depth)
    /\ di' = di + 1
    /\ UNCHANGED <<dpc, dtext, dclean, max_depth>>

\* any other character
DepthOther ==
    /\ FrameDepth
    /\ dpc = "for"
    /\ di < Len(dclean)
    /\ dclean[di + 1] \notin {"{", "}"}
    /\ di' = di + 1
    /\ UNCHANGED <<dpc, dtext, dclean, current_depth, max_depth>>

\* return max_depth
DepthReturn ==
    /\ FrameDepth
    /\ dpc = "for"
    /\ di = Len(dclean)
    /\ dpc' = "returned"
    /\ UNCHANGED <<dtext, dclean, di, current_depth, max_depth>>

NextDepth ==
    \/ DepthStrip
    \/ DepthOpen
    \/ DepthClose
    \/ DepthOther
    \/ DepthReturn

SpecDepth == InitDepth /\ [][NextDepth]_vars

-----------------------------------------------------------------------------
(* The complexity warnings of main *)

\* a variant that also flags a file whose complexity equals the threshold
HighComplexity_Inclusive(fms, t) ==
    SelectSeq(fms, LAMBDA fm : fm.cyclomatic_complexity >= t)

\* [fm for fm in metrics.files_metrics if fm.cyclomatic_complexity > args.threshold]
HighComplexity(fms, t) ==
    SelectSeq(fms, LAMBDA fm : fm.cyclomatic_complexity > t)

MaxWarnFiles == 3

\* the file complexities and the thresholds tried
WarnComplexities == {0, 5, 10, 15, 25}
Thresholds == {0, 10, 15}

InitWarn ==
    /\ \E n \in 0..MaxWarnFiles :
          \E cs \in [1..n -> WarnComplexities] :
              wmetrics = [i \in 1..n |-> [filename |-> i, cyclomatic_complexity |-> cs[i]]]
    /\ threshold \in Thresholds
    /\ wpc = "analyzed"
    /\ high_complexity_files = <<>>
    /\ IdleLines /\ IdleStrip /\ IdleCC /\ IdleFunc /\ IdleProject /\ IdleDepth
    /\ IdleScan

\* if metrics.total_files == 0: return
MainNoFiles ==
    /\ FrameWarn
    /\ wpc = "analyzed"
    /\ Len(wmetrics) = 0
    /\ wpc' = "done"
    /\ UNCHANGED <<wmetrics, threshold, high_complexity_files>>

\* the filter keeps some files: each is printed
MainWarn ==
    /\ FrameWarn
    /\ wpc = "analyzed"
    /\ Len(wmetrics) # 0
    /\ HighComplexity(wmetrics, threshold) # <<>>
    /\ high_complexity_files' = HighComplexity(wmetrics, threshold)
    /\ wpc' = "done"
    /\ UNCHANGED <<wmetrics, threshold>>

\* the filter keeps nothing: the message that no file exceeds the threshold
MainNoWarning ==
    /\ FrameWarn
    /\ wpc = "analyzed"
    /\ Len(wmetrics) # 0
    /\ HighComplexity(wmetrics, threshold) = <<>>
    /\ high_complexity_files' = <<>>
    /\ wpc' = "done"
    /\ UNCHANGED <<wmetrics, threshold>>

NextWarn ==
    \/ MainNoFiles
    \/ MainWarn
    \/ MainNoWarning

SpecWarn == InitWarn /\ [][NextWarn]_vars

-----------------------------------------------------------------------------
(* ArduinoProjectAnalyzer: _count_comment_lines, _analyze_file_content,
   scan_project and _calculate_project_stats *)

\* One iteration of the loop of _count_comment_lines on the line raw, as a
\* map on comment_count and in_multiline_comment, without the test that
\* skips a blank line
CommentStep_Blank(st, raw, extension) ==
    LET ln == Strip(raw)
        open == Contains(ln, <<"/", "*">>)
        close == Contains(ln, <<"*", "/">>)
    IN IF extension \notin {".cpp", ".c", ".h", ".hpp", ".ino"} THEN st
       ELSE IF open /\ close /\ ~st.in_multiline_comment
       THEN [st EXCEPT !.comment_count = @ + 1]
       ELSE IF open
       THEN [comment_count |-> st.comment_count + 1, in_multiline_comment |-> TRUE]
       ELSE IF close /\ st.in_multiline_comment
       THEN [comment_count |-> st.comment_count + 1, in_multiline_comment |-> FALSE]
       ELSE IF st.in_multiline_comment
       THEN [st EXCEPT !.comment_count = @ + 1]
       ELSE IF MatchAt(ln, 1, <<"/", "/">>)
       THEN [st EXCEPT !.comment_count = @ + 1]
       ELSE st

\* One iteration of the loop of _count_comment_lines on the line raw, as a
\* map on comment_count and in_multiline_comment
CommentStep(st, raw, extension) ==
    LET ln == Strip(raw)
        open == Contains(ln, <<"/", "*">>)
        close == Contains(ln, <<"*", "/">>)
    IN IF ln = <<>> THEN st
       ELSE IF extension \notin {".cpp", ".c", ".h", ".hpp", ".ino"} THEN st
       ELSE IF open /\ close /\ ~st.in_multiline_comment
       THEN [st EXCEPT !.comment_count = @ + 1]
       ELSE IF open
       THEN [comment_count |-> st.comment_count + 1, in_multiline_comment |-> TRUE]
       ELSE IF close /\ st.in_multiline_comment
       THEN [comment_count |-> st.comment_count + 1, in_multiline_comment |-> FALSE]
       ELSE IF st.in_multiline_comment
       THEN [st EXCEPT !.comment_count = @ + 1]
       ELSE IF MatchAt(ln, 1, <<"/", "/">>)
       THEN [st EXCEPT !.comment_count = @ + 1]
       ELSE st

\* the loop of _count_comment_lines over the lines from the n-th on
RECURSIVE CommentsFrom(_, _, _, _)
CommentsFrom(lines, n, st, extension) ==
    IF n > Len(lines) THEN st.comment_count
    ELSE CommentsFrom(lines, n + 1, CommentStep(st, lines[n], extension), extension)

count_comment_lines(lines, extension) ==
    CommentsFrom(lines, 1, [comment_count |-> 0, in_multiline_comment |-> FALSE],
                 extension)

\* max(0, n)
Max0(n) == IF n > 0 THEN n ELSE 0

\* The line counts of the FileStats _analyze_file_content returns for a file
\* it can read, lines being content.split('\n'). The fields taken from the
\* regular expressions and from stat() are left out.
analyze_file_content(path, extension, lines) ==
    LET total_lines == Len(lines)
        blank_lines == Cardinality({i \in 1..Len(lines) : Strip(lines[i]) = <<>>})
        comment_lines == count_comment_lines(lines, extension)
        code_lines == total_lines - blank_lines - comment_lines
    IN [path |-> path,
        extension |-> extension,
        total_lines |-> total_lines,
        code_lines |-> Max0(code_lines),
        comment_lines |-> comment_lines,
        blank_lines |-> blank_lines]

\* the ProjectStats _calculate_project_stats builds from self.file_stats
ProjectStatsOf(fs) ==
    [total_files |-> Len(fs),
     total_lines |-> SumSeq([i \in 1..Len(fs) |-> fs[i].total_lines]),
     total_code_lines |-> SumSeq([i \in 1..Len(fs) |-> fs[i].code_lines]),
     total_comment_lines |-> SumSeq([i \in 1..Len(fs) |-> fs[i].comment_lines]),
     total_blank_lines |-> SumSeq([i \in 1..Len(fs) |-> fs[i].blank_lines]),
     file_types |-> [x \in {fs[i].extension : i \in 1..Len(fs)} |->
                        Cardinality({i \in 1..Len(fs) : fs[i].extension = x})]]

MaxScanLines == 3
MaxScanFiles == 2
MaxScans == 2

\* the lines a file is made of: blank, only spaces, code, a single-line
\* comment, one indented, the markers of a block comment alone, together,
\* and after code
ScanLines == {
    <<>>,
    <<" ">>,
    <<"x">>,
    <<"/", "/">>,
    <<" ", "/", "/">>,
    <<"/", "*">>,
    <<"*", "/">>,
    <<"/", "*", "*", "/">>,
    <<"x", "/", "*">> }

\* the suffixes config["extensions"] can hold: one of the default ones and
\* one a configuration file adds
ScanExtensions == {".ino", ".txt"}

\* content.split('\n') of a file: at least one line
ScanContents == SeqsUpTo(ScanLines, MaxScanLines) \ {<<>>}

\* What a path of the tree is to scan_project: a source file, given by the
\* line counts its content has (the content is read once and the counts are
\* a function of it), a source file whose open() fails, or a path that is
\* skipped (a directory, an excluded path, another suffix)
SourceCounts ==
    {analyze_file_content(0, x, ls) : x \in ScanExtensions, ls \in ScanContents}

NoCounts ==
    [path |-> 0, extension |-> "", total_lines |-> 0, code_lines |-> 0,
     comment_lines |-> 0, blank_lines |-> 0]

Paths ==
    {[kind |-> "source", counts |-> c] : c \in SourceCounts}
        \cup {[kind |-> "unreadable", counts |-> NoCounts],
              [kind |-> "skipped", counts |-> NoCounts]}

InitScan ==
    /\ \E n \in 0..MaxScanFiles :
         \E t \in [1..n -> Paths] :
            tree = [i \in 1..n |-> [t[i] EXCEPT !.counts.path = i]]
    /\ apc = "ready"
    /\ walk = 0
    /\ file_stats = <<>>
    /\ project_stats = None
    /\ scans = 0
    /\ IdleLines /\ IdleStrip /\ IdleCC /\ IdleFunc /\ IdleProject /\ IdleDepth
    /\ IdleWarn

\* scan_project is called: print, the loop over rglob('*') begins
ScanStart ==
    /\ FrameScan
    /\ apc = "ready"
    /\ scans < MaxScans
    /\ apc' = "walk"
    /\ walk' = 0
    /\ UNCHANGED <<tree, file_stats, project_stats, scans>>

\* a file with a configured suffix that is read: its FileStats is appended
ScanAnalyze ==
    /\ FrameScan
    /\ apc = "walk"
    /\ walk < Len(tree)
    /\ tree[walk + 1].kind = "source"
    /\ file_stats' = Append(file_stats, tree[walk + 1].counts)
    /\ walk' = walk + 1
    /\ UNCHANGED <<apc, tree, project_stats, scans>>

\* a file whose read raises: _analyze_file_content returns None, nothing is
\* appended
ScanUnreadable ==
    /\ FrameScan
    /\ apc = "walk"
    /\ walk < Len(tree)
    /\ tree[walk + 1].kind = "unreadable"
    /\ walk' = walk + 1
    /\ UNCHANGED <<apc, tree, file_stats, project_stats, scans>>

\* a directory, an excluded path or a file with another suffix
ScanSkip ==
    /\ FrameScan
    /\ apc = "walk"
    /\ walk < Len(tree)
    /\ tree[walk + 1].kind = "skipped"
    /\ walk' = walk + 1
    /\ UNCHANGED <<apc, tree, file_stats, project_stats, scans>>

\* _calculate_project_stats with no FileStats: return; scan_project returns
ScanNoStats ==
    /\ FrameScan
    /\ apc = "walk"
    /\ walk = Len(tree)
    /\ file_stats = <<>>
    /\ apc' = "ready"
    /\ scans' = scans + 1
    /\ UNCHANGED <<tree, walk, file_stats, project_stats>>

\* _calculate_project_stats builds the ProjectStats; scan_project returns
ScanStats ==
    /\ FrameScan
    /\ apc = "walk"
    /\ walk = Len(tree)
    /\ file_stats # <<>>
    /\ project_stats' = <<ProjectStatsOf(file_stats)>>
    /\ apc' = "ready"
    /\ scans' = scans + 1
    /\ UNCHANGED <<tree, walk, file_stats>>

NextScan ==
    \/ ScanStart
    \/ ScanAnalyze
    \/ ScanUnreadable
    \/ ScanSkip
    \/ ScanNoStats
    \/ ScanStats

SpecScan == InitScan /\ [][NextScan]_vars

-----------------------------------------------------------------------------
\* C1: for a file count_lines can read, loc + comments + blank equals the
\* number of physical lines the loop has processed, at every point of the
\* loop and at the return, whatever the block-comment flag is.
C1_Partition ==
    readable => loc + comments + blank = nread

\* a whole file has been counted, one line of it with the flag set
C1_Witness ==
    /\ lpc = "returned" /\ readable
    /\ nread = MaxLines
    /\ was_in_comment
    /\ comments >= 1

-----------------------------------------------------------------------------
\* the text holds one function, header and balancing brace on one line, and
\* nothing else but blank lines
C2_OneLiner(t) ==
    LET ls == Split(t) IN
    \E k \in 1..Len(ls) :
        /\ FuncMatch(ls[k]) # <<>>
        /\ Count(ls[k], "{") = Count(ls[k], "}")
        /\ \A j \in 1..Len(ls) : j # k => Strip(ls[j]) = <<>>

\* C2: for a text whose only function has its header and its balancing brace
\* on the same line, such as "int add(int a, int b) { return a + b; }",
\* find_functions returns exactly one record: that function's name,
\* complexity 1 and body_line_count 1.
C2_OneLineFunction ==
    (fpc = "returned" /\ C2_OneLiner(ftext)) =>
        /\ Len(functions) = 1
        /\ functions[1].name = <<"a", "d", "d">>
        /\ functions[1].complexity = 1
        /\ functions[1].body_line_count = 1

\* the number of matches of all nine patterns, each taken on its own
RECURSIVE C3_Sum(_, _)
C3_Sum(s, n) == IF n = 0 THEN 0 ELSE C3_Sum(s, n - 1) + CountMatches(s, 1, n)

\* C3: the complexity returned is 1 plus the sum over the nine patterns of the
\* number of matches of each in the stripped text, with nothing deducted where
\* the matches of two patterns overlap: "else if (" gives 1 + 2 and
\* "if (x) { if (y) { z(); } }" gives 3.
C3_SumOfMatches ==
    cpc = "returned" =>
        /\ cclean = remove_comments_and_strings(ctext)
        /\ complexity = 1 + C3_Sum(cclean, NumPatterns)
        /\ ctext = ElseIf => complexity = 3
        /\ ctext = Nested => complexity = 3

\* "else if (" has been counted twice
C3_Witness ==
    /\ cpc = "returned"
    /\ ctext = ElseIf
    /\ CountMatches(cclean, 1, 1) = 1 /\ CountMatches(cclean, 1, 2) = 1
    /\ complexity = 3

\* C4: remove_comments_and_strings is idempotent: applied to its own result
\* it returns that result unchanged.
C4_Idempotent ==
    spc = "returned" => remove_comments_and_strings(content) = content

\* The characters of s that C's lexical rules place outside every literal and
\* comment, from index i on in lexical state st. A backslash-newline is a
\* line splice and a literal left open ends at the end of its line; neither
\* is counted as code.
RECURSIVE CLexCode(_, _, _)
CLexCode(s, i, st) ==
    IF i > Len(s) THEN <<>>
    ELSE IF MatchAt(s, i, <<BS, NL>>) THEN CLexCode(s, i + 2, st)
    ELSE IF st = "code" THEN
        IF MatchAt(s, i, <<"/", "/">>) THEN CLexCode(s, i + 2, "line")
        ELSE IF MatchAt(s, i, OPEN) THEN CLexCode(s, i + 2, "block")
        ELSE IF s[i] = DQ THEN CLexCode(s, i + 1, "string")
        ELSE IF s[i] = SQ THEN CLexCode(s, i + 1, "char")
        ELSE <<s[i]>> \o CLexCode(s, i + 1, "code")
    ELSE IF st = "line" THEN
        IF s[i] = NL THEN <<NL>> \o CLexCode(s, i + 1, "code")
        ELSE CLexCode(s, i + 1, "line")
    ELSE IF st = "block" THEN
        IF MatchAt(s, i, CLOSE) THEN CLexCode(s, i + 2, "code")
        ELSE CLexCode(s, i + 1, "block")
    ELSE \* "string" or "char"
        IF s[i] = BS THEN CLexCode(s, i + 2, st)
        ELSE IF s[i] = NL THEN CLexCode(s, i + 1, "code")
        ELSE IF s[i] = (IF st = "string" THEN DQ ELSE SQ)
             THEN CLexCode(s, i + 1, "code")
        ELSE CLexCode(s, i + 1, st)

\* a[i..] can be read off b[j..] in order
RECURSIVE IsSubsequenceFrom(_, _, _, _)
IsSubsequenceFrom(a, i, b, j) ==
    IF i > Len(a) THEN TRUE
    ELSE IF j > Len(b) THEN FALSE
    ELSE IF a[i] = b[j] THEN IsSubsequenceFrom(a, i + 1, b, j + 1)
    ELSE IsSubsequenceFrom(a, i, b, j + 1)

\* C5: every character of the input that lies outside the literals and
\* comments of the input appears in the result, in the same order.
C5_CodeKept ==
    spc = "returned" => IsSubsequenceFrom(CLexCode(text, 1, "code"), 1, content, 1)

\* C6: when the text the while loop scans holds a "/*" with no "*/" after it,
\* the result is that text cut off at the "/*": if it is the first "/*", the
\* result is exactly what precedes it; in general it is what the loop makes of
\* what precedes it, and nothing from the "/*" on.
\* For the ten-line text whose comment opens on line 5 the result ends there.
C6_Truncation ==
    spc = "returned" =>
        LET p == CommentStart(after_subs) IN
        /\ (p # 0 /\ CommentEnd(after_subs, p) = 0) =>
               (cut_at = p /\ content = SubSeq(after_subs, 1, p - 1))
        /\ cut_at # 0 =>
               /\ MatchAt(after_subs, cut_at, OPEN)
               /\ CommentEnd(after_subs, cut_at) = 0
               /\ content = BlockLoop(SubSeq(after_subs, 1, cut_at - 1))
        /\ text = TenLines =>
               content = <<"x", NL, "x", NL, "x", NL, "x", NL, "x">>

\* the ten-line text has been cut at the comment on its line 5
C6_Witness ==
    /\ spc = "returned"
    /\ text = TenLines
    /\ cut_at = 10
    /\ Len(content) = 9

\* C7: a line whose trimmed text starts with "//" is counted as a comment
\* line and not as a code line, and its text adds no match to the cyclomatic
\* complexity.
C7_SlashSlashIsComment ==
    [][(lpc = "body" /\ MatchAt(Strip(line), 1, <<"/", "/">>)) =>
         /\ kind' = "comment"
         /\ comments' = comments + 1
         /\ loc' = loc
         /\ calculate_cyclomatic_complexity(line) = 1]_vars

\* every numeric field of a FileMetrics is 0
AllZero(fm) ==
    /\ fm.lines_of_code = 0 /\ fm.lines_of_comments = 0 /\ fm.blank_lines = 0
    /\ fm.cyclomatic_complexity = 0 /\ fm.functions_count = 0
    /\ fm.max_function_complexity = 0 /\ fm.average_function_complexity = 0
    /\ fm.nested_depth = 0

\* C8: when one of the reads analyze_file performs for a file fails, the
\* FileMetrics recorded for that file has every numeric field equal to 0.
\* The read of count_lines can fail after the read of analyze_file has
\* succeeded; the record then keeps the metrics computed from content.
C8_FailedReadZeroed ==
    \A k \in read_failed : AllZero(files_metrics[k])

\* the sum of the file complexities of the records with index in S
RECURSIVE TotalOver(_, _)
TotalOver(fms, S) ==
    IF S = {} THEN 0
    ELSE LET k == CHOOSE x \in S : TRUE
         IN fms[k].cyclomatic_complexity + TotalOver(fms, S \ {k})

\* avg (in hundredths) is a hundredth nearest to the mean of the file
\* complexities of the records with index in S, and 0 when S is empty
MeanOver(avg, fms, S) ==
    IF S = {} THEN avg = 0
    ELSE LET d == avg * Cardinality(S) - 100 * TotalOver(fms, S)
         IN 2 * (IF d < 0 THEN -d ELSE d) <= Cardinality(S)

\* m is the largest file complexity of the records with index in S, and 0
\* when S is empty
MaxOver(m, fms, S) ==
    IF S = {} THEN m = 0
    ELSE /\ \E k \in S : fms[k].cyclomatic_complexity = m
         /\ \A k \in S : fms[k].cyclomatic_complexity <= m

\* the indices of the records with cyclomatic_complexity > 0
Positive(fms) == {k \in 1..Len(fms) : fms[k].cyclomatic_complexity > 0}

\* C9: in the ProjectMetrics returned, average_complexity and max_complexity
\* are the mean and the maximum over exactly the FileMetrics with
\* cyclomatic_complexity > 0, both 0 when there is none, and total_files is
\* the number of files analysed, those with cyclomatic_complexity 0 included.
C9_PositiveOnly ==
    ppc = "returned" =>
        /\ MeanOver(project.average_complexity, files_metrics, Positive(files_metrics))
        /\ MaxOver(project.max_complexity, files_metrics, Positive(files_metrics))
        /\ project.total_files = Len(files_to_analyze)
        /\ project.files_metrics = files_metrics

\* C9: a project is returned with a record of complexity 0 and records of
\* complexity 1 and 3; the average is 2.00 and the three files are counted
C9_Witness ==
    /\ ppc = "returned"
    /\ \E k \in 1..Len(files_metrics) : files_metrics[k].cyclomatic_complexity = 0
    /\ Cardinality(Positive(files_metrics)) = 2
    /\ project.average_complexity = 200
    /\ project.max_complexity = 3
    /\ project.total_files = 3

\* C10 as stated: a readable file that is empty does not enter the computation
\* of average_complexity or max_complexity: they are the mean and the maximum
\* over the records with positive complexity of the files not read as ''.
C10_EmptyExcluded ==
    ppc = "returned" =>
        /\ MeanOver(project.average_complexity, files_metrics,
                    Positive(files_metrics) \ read_empty)
        /\ MaxOver(project.max_complexity, files_metrics,
                   Positive(files_metrics) \ read_empty)
        /\ project.total_files = Len(files_to_analyze)

\* C10 amended: a readable file that is empty has cyclomatic_complexity 1 and
\* enters the computation of average_complexity and max_complexity with that
\* value; it counts toward total_files.
C10_EmptyIncluded ==
    ppc = "returned" =>
        /\ \A k \in read_empty : files_metrics[k].cyclomatic_complexity = 1
        /\ read_empty \subseteq Positive(files_metrics)
        /\ read_empty # {} =>
              /\ MeanOver(project.average_complexity, files_metrics,
                          read_empty \cup Positive(files_metrics))
              /\ MaxOver(project.max_complexity, files_metrics,
                         read_empty \cup Positive(files_metrics))
              /\ project.max_complexity >= 1
        /\ project.total_files = Len(files_to_analyze)

\* C10: a project is returned with an empty file and a file of complexity 3,
\* and the empty file has lowered the average to 2
C10_Witness ==
    /\ ppc = "returned"
    /\ Len(files_metrics) = 2
    /\ read_empty = {1}
    /\ read_failed = {}
    /\ files_metrics[2].cyclomatic_complexity = 3
    /\ project.average_complexity = 200
    /\ project.total_files = 2

\* C11: the record of a file whose reads all succeeded has
\* cyclomatic_complexity >= 1, the non-empty ones in particular, and a record
\* with cyclomatic_complexity 0 is the record of a file whose read failed.
C11_BasePath ==
    \A k \in 1..Len(files_metrics) :
        /\ files_metrics[k].cyclomatic_complexity >= 0
        /\ k \notin read_failed => files_metrics[k].cyclomatic_complexity >= 1
        /\ files_metrics[k].cyclomatic_complexity = 0 => k \in read_failed

\* C11: a non-empty file was read and has its record, and a file whose read
\* failed has a record of complexity 0
C11_Witness ==
    /\ \E k \in 1..Len(files_metrics) :
          /\ k \notin read_failed \cup read_empty
          /\ files_metrics[k].cyclomatic_complexity >= 1
    /\ \E k \in read_failed : files_metrics[k].cyclomatic_complexity = 0

\* C12: a second run of the engine on the same unchanged files returns a
\* ProjectMetrics identical to the one of the first run, the content and the
\* order of files_metrics included.
C12_SameResult ==
    (ppc = "returned" /\ run = 2) => project = first_project

\* C12 without the order: the second run returns the same totals and the
\* same records, possibly in another order
C12_SameRecords ==
    (ppc = "returned" /\ run = 2) =>
        /\ [project EXCEPT !.files_metrics = <<>>]
              = [first_project EXCEPT !.files_metrics = <<>>]
        /\ {project.files_metrics[k] : k \in 1..Len(project.files_metrics)}
              = {first_project.files_metrics[k] :
                    k \in 1..Len(first_project.files_metrics)}

\* C13: when no candidate file is discovered, analyze_project returns a
\* ProjectMetrics whose seven numeric fields are 0 and whose files_metrics is
\* empty, and no file is analysed.
C13_NoFiles ==
    (ppc = "returned" /\ files_to_analyze = <<>>) =>
        /\ project.total_files = 0 /\ project.total_loc = 0
        /\ project.total_comments = 0 /\ project.total_blank_lines = 0
        /\ project.average_complexity = 0 /\ project.max_complexity = 0
        /\ project.total_functions = 0
        /\ project.files_metrics = <<>>
        /\ files_metrics = <<>>

\* C13: analyze_project has returned for a project without candidate files
C13_Witness ==
    ppc = "returned" /\ files_to_analyze = <<>> /\ disk = <<>>

\* the complexities of a list of records
ComplexitiesOf(fms) == [i \in 1..Len(fms) |-> fms[i].cyclomatic_complexity]

\* C14: the warning filter flags exactly the files whose complexity is
\* strictly greater than the threshold, in their order: a file whose
\* complexity equals the threshold is not flagged, and for the complexities
\* [5, 15, 25] and the threshold 10 the 15 and the 25 are flagged.
C14_StrictlyGreater ==
    (wpc = "done" /\ wmetrics # <<>>) =>
        /\ \A k \in 1..Len(wmetrics) :
              (wmetrics[k].cyclomatic_complexity > threshold)
                <=> (\E j \in 1..Len(high_complexity_files) :
                        high_complexity_files[j] = wmetrics[k])
        /\ \A j \in 1..Len(high_complexity_files) :
              /\ high_complexity_files[j].cyclomatic_complexity # threshold
              /\ \E k \in 1..Len(wmetrics) : wmetrics[k] = high_complexity_files[j]
        /\ \A i, j \in 1..Len(high_complexity_files) :
              i < j => high_complexity_files[i].filename < high_complexity_files[j].filename
        /\ (ComplexitiesOf(wmetrics) = <<5, 15, 25>> /\ threshold = 10)
              => ComplexitiesOf(high_complexity_files) = <<15, 25>>

\* C14: the complexities [5, 15, 25] were filtered with the threshold 10
C14_Witness ==
    /\ wpc = "done"
    /\ ComplexitiesOf(wmetrics) = <<5, 15, 25>>
    /\ threshold = 10
    /\ ComplexitiesOf(high_complexity_files) = <<15, 25>>

\* the value of the depth counter after the first k characters of s
RECURSIVE CounterAfter(_, _)
CounterAfter(s, k) ==
    IF k = 0 THEN 0
    ELSE IF s[k] = "{" THEN CounterAfter(s, k - 1) + 1
    ELSE IF s[k] = "}" /\ CounterAfter(s, k - 1) > 0 THEN CounterAfter(s, k - 1) - 1
    ELSE CounterAfter(s, k - 1)

\* C15: in calculate_nesting_depth the counter goes up on "{" and down on "}"
\* but not below 0, and max_depth is the largest value it has had; at every
\* step 0 <= current_depth <= max_depth; "} {" gives 1 and the two nested
\* ifs give 2.
C15_ClampedDepth ==
    dpc \in {"for", "returned"} =>
        /\ 0 <= current_depth /\ current_depth <= max_depth
        /\ current_depth = CounterAfter(dclean, di)
        /\ \E k \in 0..di : max_depth = CounterAfter(dclean, k)
        /\ \A k \in 0..di : CounterAfter(dclean, k) <= max_depth
        /\ (dpc = "returned" /\ dtext = CloseOpen) => max_depth = 1
        /\ (dpc = "returned" /\ dtext = NestedIfs) => max_depth = 2

\* C15: the loop has returned 1 for a text that closes a brace before it
\* opens one
C15_Witness ==
    /\ dpc = "returned"
    /\ dtext = CloseOpen
    /\ max_depth = 1
    /\ current_depth = 1

\* C16: every record of find_functions has complexity >= 1 and
\* body_line_count >= 1, while the loop runs and at the return.
C16_RecordBounds ==
    \A k \in 1..Len(functions) :
        /\ functions[k].complexity >= 1
        /\ functions[k].body_line_count >= 1

\* C16: find_functions has returned a record of a function with a decision
C16_Witness ==
    /\ fpc = "returned"
    /\ Len(functions) >= 1
    /\ functions[1].complexity = 2
    /\ functions[1].body_line_count = 3

\* the sum of the complexities of the first n records of a list of functions
RECURSIVE FunctionTotal(_, _)
FunctionTotal(fs, n) ==
    IF n = 0 THEN 0 ELSE FunctionTotal(fs, n - 1) + fs[n].complexity

\* C17: the FileMetrics analyze_file builds for a file it has read has
\* functions_count equal to the number of records of find_functions on the
\* content, max_function_complexity their largest complexity and
\* average_function_complexity (in hundredths) a hundredth nearest to their
\* mean; both are 0 exactly when functions_count is 0.
C17_FunctionStats ==
    [][(ppc = "count" /\ ppc' = "for") =>
        LET fs == AnalysisOf(file_content).functions
            fm == files_metrics'[Len(files_metrics')]
            d  == fm.average_function_complexity * Len(fs)
                    - 100 * FunctionTotal(fs, Len(fs))
        IN /\ fm.functions_count = Len(fs)
           /\ (fm.max_function_complexity = 0) <=> (fm.functions_count = 0)
           /\ (fm.average_function_complexity = 0) <=> (fm.functions_count = 0)
           /\ fs # <<>> =>
                /\ \E i \in 1..Len(fs) : fs[i].complexity = fm.max_function_complexity
                /\ \A i \in 1..Len(fs) : fs[i].complexity <= fm.max_function_complexity
                /\ 2 * (IF d < 0 THEN -d ELSE d) <= Len(fs)]_vars

\* C17: the record of a file with two functions of complexity 3 and 1, and
\* the record of a file without functions
C17_Witness ==
    /\ \E k \in 1..Len(files_metrics) :
          /\ files_metrics[k].functions_count = 2
          /\ files_metrics[k].max_function_complexity = 3
          /\ files_metrics[k].average_function_complexity = 200
    /\ \E k \in 1..Len(files_metrics) :
          /\ k \notin read_failed
          /\ files_metrics[k].functions_count = 0
          /\ files_metrics[k].max_function_complexity = 0

\* the line the loop body is working on holds "/*", holds "*/"
HasOpen == Contains(Strip(line), OPEN)
HasClose == Contains(Strip(line), CLOSE)

\* C18 as stated: a non-blank line processed while the flag is set is counted
\* as a comment and never in lines_of_code, whatever it holds.
C18_NeverCode ==
    [][(lpc = "body" /\ in_multiline_comment /\ Strip(line) # <<>>) =>
          kind' = "comment" /\ comments' = comments + 1 /\ loc' = loc]_vars

\* C18 amended: a non-blank line processed while the flag is set is counted
\* as a comment unless it holds both "/*" and "*/"; a line with both markers
\* is counted by the single-line rule whatever the flag: as a comment when it
\* matches ^\s*/\*.*\*/\s*$ and in lines_of_code otherwise.
C18_InsideComment ==
    [][(lpc = "body" /\ in_multiline_comment /\ Strip(line) # <<>>) =>
          IF HasOpen /\ HasClose
          THEN /\ kind' = IF MatchSingleLineBlock(Strip(line)) THEN "comment" ELSE "code"
               /\ kind' = ClassifyLine(line, FALSE).kind
               /\ loc' = loc + (IF kind' = "code" THEN 1 ELSE 0)
          ELSE kind' = "comment" /\ comments' = comments + 1 /\ loc' = loc]_vars

\* C18: two lines were read, the second one with the flag set; it was counted
\* as a comment and left the flag set
C18_Witness ==
    /\ lpc = "for"
    /\ nread = 2
    /\ was_in_comment /\ in_multiline_comment
    /\ kind = "comment"
    /\ comments = 2 /\ loc = 0

\* there is a character that is not white space outside the comments of the
\* line s, read from position i on
RECURSIVE CodeOutside(_, _)
CodeOutside(s, i) ==
    IF i > Len(s) THEN FALSE
    ELSE IF MatchAt(s, i, OPEN)
    THEN IF FindFrom(s, CLOSE, i + 2) = 0 THEN FALSE
         ELSE CodeOutside(s, FindFrom(s, CLOSE, i + 2) + 2)
    ELSE IF IsSpace(s[i]) THEN CodeOutside(s, i + 1)
    ELSE TRUE

\* C19: outside a block comment, a non-blank line that holds both "/*" and
\* "*/" is counted as code whenever code shares the line, before, after or
\* between the comments, and as a comment only when none does.
C19_CodeSharesLine ==
    [][(lpc = "body" /\ ~in_multiline_comment /\ HasOpen /\ HasClose) =>
          /\ CodeOutside(Strip(line), 1) => kind' = "code"
          /\ kind' = "comment" => ~CodeOutside(Strip(line), 1)]_vars

\* C20: the flag starts false; a line with "/*" and without "*/" sets it, a
\* line with "*/" and without "/*" clears it, every other line (blank, both
\* markers, no marker) leaves it as it is, and no other step changes it; a
\* non-blank line without any marker read while the flag is set is counted as
\* a comment.
C20_FlagSteps ==
    /\ (lpc = "open" => ~in_multiline_comment)
    /\ [][/\ lpc # "body" => in_multiline_comment' = in_multiline_comment
          /\ lpc = "body" =>
               /\ in_multiline_comment' =
                    IF HasOpen /\ ~HasClose THEN TRUE
                    ELSE IF HasClose /\ ~HasOpen THEN FALSE
                    ELSE in_multiline_comment
               /\ (in_multiline_comment /\ Strip(line) # <<>> /\ ~HasOpen /\ ~HasClose)
                    => kind' = "comment" /\ comments' = comments + 1]_vars

\* C20: three lines were read and counted as comments: the first set the
\* flag, the second was read with the flag set and kept it, the third
\* cleared it
C20_Witness ==
    /\ lpc = "for"
    /\ nread = 3
    /\ comments = 3
    /\ was_in_comment
    /\ ~in_multiline_comment

\* the line the loop of find_functions examines next, and its net brace count
NextLine == flines[fi + 1]
NetBraces(ln) == Count(ln, "{") - Count(ln, "}")

\* the line opens a function: it matches the header pattern and none is open
Opens == current_function = <<>> /\ FuncMatch(NextLine) # <<>>

\* C21: a function opened at a header line is completed at the first line,
\* the header line included, after which the running brace depth is zero or
\* below: at that line a record is appended with the captured name, the
\* complexity of the buffered lines and their number, and the capture state
\* is reset before the next line is examined.
C21_ClosedAtZero ==
    [][(fpc = "for" /\ fi' = fi + 1) =>
         LET name  == IF Opens THEN FuncMatch(NextLine) ELSE current_function
             buf   == IF Opens THEN <<NextLine>>
                      ELSE Append(function_content, NextLine)
             depth == (IF Opens THEN 0 ELSE brace_count) + NetBraces(NextLine)
         IN (name # <<>> /\ depth <= 0) =>
              /\ functions' = Append(functions,
                     [name |-> name,
                      complexity |-> calculate_cyclomatic_complexity(Join(buf)),
                      body_line_count |-> Len(buf)])
              /\ current_function' = <<>>
              /\ function_content' = <<>>
              /\ brace_count' = 0]_vars

\* the number of lines among the first n that match the header pattern
RECURSIVE HeaderLines(_, _)
HeaderLines(ls, n) ==
    IF n = 0 THEN 0
    ELSE HeaderLines(ls, n - 1) + (IF FuncMatch(ls[n]) # <<>> THEN 1 ELSE 0)

\* C22: at most one function is open at any time: a line matching the header
\* pattern while a function is open changes neither the captured name nor
\* restarts the buffer, it is appended to the open function's body and only
\* affects the brace depth; the lines of the records and of the open buffer
\* are disjoint lines of the text, and there are never more records and open
\* functions than header-matching lines.
C22_OneOpen ==
    /\ [][(fpc = "for" /\ fi' = fi + 1 /\ current_function # <<>>
             /\ FuncMatch(NextLine) # <<>>) =>
            LET bc == brace_count + NetBraces(NextLine)
            IN IF bc > 0
               THEN /\ current_function' = current_function
                    /\ function_content' = Append(function_content, NextLine)
                    /\ brace_count' = bc
                    /\ functions' = functions
               ELSE /\ current_function' = <<>>
                    /\ Len(functions') = Len(functions) + 1
                    /\ functions'[Len(functions')].name = current_function
                    /\ functions'[Len(functions')].body_line_count =
                           Len(function_content) + 1]_vars
    /\ [](fpc \in {"for", "returned"} =>
            /\ SumSeq([k \in 1..Len(functions) |-> functions[k].body_line_count])
                 + Len(function_content) <= fi
            /\ Len(functions) + (IF current_function # <<>> THEN 1 ELSE 0)
                 <= HeaderLines(flines, fi))

\* C22: the second line read matches the header pattern and was appended to
\* the body of the function the first line opened
C22_Witness ==
    /\ fpc = "for"
    /\ fi = 2
    /\ current_function = <<"f">>
    /\ Len(function_content) = 2
    /\ FuncMatch(function_content[2]) # <<>>
    /\ functions = <<>>

\* C23: a function whose brace depth never returns to zero or below before
\* the end of the text is not recorded: a record is appended only at a line
\* of an open function after which the depth is zero or below, the return
\* appends nothing, and the lines buffered for the function left open belong
\* to no record.
C23_OpenDropped ==
    /\ [][/\ functions' # functions =>
               /\ fpc = "for" /\ fi' = fi + 1
               /\ current_function # <<>>
               /\ brace_count + NetBraces(NextLine) <= 0
               /\ Len(functions') = Len(functions) + 1
          /\ (fpc = "for" /\ fpc' = "returned") => functions' = functions]_vars
    /\ []((fpc = "returned" /\ current_function # <<>>) =>
            SumSeq([k \in 1..Len(functions) |-> functions[k].body_line_count])
              <= Len(flines) - Len(function_content))

\* C23: find_functions returned with one function recorded and a later one
\* still open
C23_Witness ==
    /\ fpc = "returned"
    /\ current_function # <<>>
    /\ brace_count > 0
    /\ Len(functions) = 1

\* the ternary operators of a text pair up: as many ":" as "?", and never
\* more ":" than "?" in a prefix
TernariesPaired(s) ==
    /\ Count(s, "?") >= 1
    /\ Count(s, ":") = Count(s, "?")
    /\ \A n \in 1..Len(s) :
           Count(SubSeq(s, 1, n), ":") <= Count(SubSeq(s, 1, n), "?")

\* C24: every ternary expression of the clean text adds exactly 1: a text
\* with n ternary operators and no other control structure has complexity
\* 1 + n, also when several ternaries stand on the same line.
C24_EachTernary ==
    (cpc = "returned" /\ TernariesPaired(cclean)
       /\ SumMatches(cclean, NumPatterns - 1) = 0) =>
        complexity = 1 + Count(cclean, "?")

\* C25: the text remove_comments_and_strings returns contains no "//" and no
\* "/*": removing a block comment never joins the characters around it into
\* a comment marker that survives in the result.
C25_NoMarkerLeft ==
    /\ spc = "returned" =>
         /\ ~Contains(content, OPEN)
         /\ ~Contains(content, <<"/", "/">>)
    /\ spc = "while" => ~Contains(content, <<"/", "/">>)

\* C25: the comment of x/**/* was removed and the characters around it stand
\* side by side in the result
C25_Witness ==
    /\ spc = "returned"
    /\ text = <<"x", "/", "*", "*", "/", "*">>
    /\ content = <<"x", "*">>

\* C26: the block-comment loop terminates: each iteration either strictly
\* shortens the text or exits the loop, and every call returns, also on
\* texts such as /*/ where the opening and the closing marker overlap.
C26_Terminates ==
    /\ [][spc = "while" =>
            (Len(content') < Len(content) \/ spc' = "returned")]_vars
    /\ <>(spc = "returned")

\* C26: /*/ was removed as one comment and the call returned
C26_Witness ==
    /\ spc = "returned"
    /\ text = <<"/", "*", "/">>
    /\ after_subs = text
    /\ content = <<>>
    /\ cut_at = 0

\* C27: each FileMetrics describes one content of its file: the line counts
\* of a record are those of the content its complexity, function and nesting
\* metrics were computed from, even if the file is changed or becomes
\* unreadable while the run is in progress.
C27_OneContent ==
    [][(ppc = "count" /\ ppc' = "for") =>
         LET fm     == files_metrics'[Len(files_metrics')]
             counts == count_lines([data |-> file_content, ok |-> TRUE])
         IN /\ fm.cyclomatic_complexity = AnalysisOf(file_content).file_complexity
            /\ fm.lines_of_code = counts.loc
            /\ fm.lines_of_comments = counts.comments
            /\ fm.blank_lines = counts.blank]_vars

\* C30: max_function_complexity is at most cyclomatic_complexity: no
\* function body extracted by find_functions has a higher complexity than
\* the whole text it was extracted from (analyze_file takes both from the
\* same content: lines 214, 215 and 220).
C30_FunctionBelowFile ==
    fpc = "returned" =>
        \A k \in 1..Len(functions) :
            functions[k].complexity <= calculate_cyclomatic_complexity(ftext)

\* the FileStats of one scan of the tree: one per source file that is read,
\* in the order of the walk
OneScan ==
    LET sources == SelectSeq(tree, LAMBDA p : p.kind = "source")
    IN [i \in 1..Len(sources) |-> sources[i].counts]

\* C28: after any number of scan_project calls on one analyzer over an
\* unchanged project, file_stats holds exactly one FileStats per matching
\* readable file and project_stats equals the totals of a single scan.
C28_Rebuilt ==
    (apc = "ready" /\ scans >= 1) =>
        /\ file_stats = OneScan
        /\ project_stats =
             IF OneScan = <<>> THEN None ELSE <<ProjectStatsOf(OneScan)>>

\* C29: every FileStats satisfies total_lines = code_lines + comment_lines +
\* blank_lines: the comment lines counted are non-blank lines, so the clamp
\* on code_lines never changes the value; and the totals of the project
\* satisfy the same equation.
C29_LineCounts ==
    /\ \A i \in 1..Len(file_stats) :
          /\ file_stats[i].comment_lines + file_stats[i].blank_lines
                <= file_stats[i].total_lines
          /\ file_stats[i].total_lines =
                file_stats[i].code_lines + file_stats[i].comment_lines
                  + file_stats[i].blank_lines
    /\ project_stats # None =>
          project_stats[1].total_lines =
              project_stats[1].total_code_lines
                + project_stats[1].total_comment_lines
                + project_stats[1].total_blank_lines

\* C29: a scan has returned the totals of a project one of whose files is a
\* block comment of three lines with a blank line inside: two comment lines,
\* one blank line, no code
C29_Witness ==
    /\ apc = "ready"
    /\ scans = 1
    /\ project_stats # None
    /\ \E i \in 1..Len(file_stats) :
          /\ file_stats[i].total_lines = 3
          /\ file_stats[i].comment_lines = 2
          /\ file_stats[i].blank_lines = 1
          /\ file_stats[i].code_lines = 0

=============================================================================
